---- MODULE Spec2Model ----
(***************************************************************************)
(* Service lifecycle control of serverasistant.                            *)
(*                                                                         *)
(* Two lifecycle controllers live in the repository:                       *)
(*   - docker_manager.py           (class DockerManager, "legacy"): a list *)
(*     of service dicts with a 'type' (dockerfile | docker-compose) and a  *)
(*     running_services table;                                             *)
(*   - src/core/docker_manager.py  (class DockerManager, "core"): a dict   *)
(*     of ServiceConfig objects, compose only, no tracking table.          *)
(* monitor.py (ServiceMonitor) polls the legacy controller.                *)
(***************************************************************************)
EXTENDS Integers, Sequences, FiniteSets, TLC

\* ---------------------------------------------------------------- bounds
NumServices == 2
MaxContainers == 2                  \* entries in one 'compose ps' listing
MaxTime == 16                       \* minutes of monitoring explored
MaxUpdates == 2                     \* update_service calls explored in one run
NumThreads == 2                     \* threads that use one log panel
MaxLines == 2                       \* largest max_lines of a log panel explored
MaxAdds == 4                        \* add_log calls explored on one panel
MaxFrames == 6                      \* nested display_menu invocations explored

\* ------------------------------------------------------------- universes
Services == 1..NumServices          \* the configured service names, in file order
Ghost == 0                          \* a name that is not in the registry
Names == Services \cup {Ghost}

Kinds == {"dockerfile", "docker-compose"}

\* the service path on disk: absent, a directory without the compose file,
\* or a directory holding the compose file
PathStates == {"missing", "dir", "dir_compose"}

\* what running one external command can do: exit 0, exit non-zero, or fail
\* at runner level (subprocess.run itself raises: OSError, UnicodeDecodeError)
Outcomes == {"exit0", "nonzero", "raise"}

\* ------------------------------------------- output of 'compose ps --format json'
\* State of a listed container; "nokey" = the entry has no 'State' key
ContainerStates == {"running", "exited", "nokey"}

\* one element of a JSON array: an object with 'Service' and 'State', or a
\* value that is not an object (a number)
NonObject == [isObj |-> FALSE, svc |-> Ghost, state |-> "nokey"]

\* the elements a listing can hold when service n is queried: objects for
\* n itself or for a service of another name (Ghost), and non-objects
ItemsFor(n) ==
    [isObj : {TRUE}, svc : {n, Ghost}, state : ContainerStates] \cup {NonObject}

RECURSIVE SeqsUpTo(_, _)
SeqsUpTo(S, k) ==
    IF k = 0 THEN {<<>>}
    ELSE LET shorter == SeqsUpTo(S, k - 1) IN
         shorter \cup {Append(q, x) : q \in {r \in shorter : Len(r) = k - 1}, x \in S}

ItemListsFor(n) == SeqsUpTo(ItemsFor(n), MaxContainers)

\* stdout by shape:
\*   blank        empty or whitespace only
\*   garbage      not JSON
\*   lines        JSON-lines, two or more objects, one per line
\*   number, null, string, empty_string, empty_object   a JSON value of that type
\*   object       one JSON object (items holds it)
\*   list         a JSON array (items holds its elements)
ScalarShapes ==
    {"blank", "garbage", "number", "null", "string", "empty_string", "empty_object"}

ScalarOutputs == [shape : ScalarShapes, items : {<<>>}]

\* what 'compose ps --format json' can print when service n is queried
PsOutputsFor(n) ==
    ScalarOutputs
    \cup [shape : {"list"}, items : ItemListsFor(n)]
    \cup [shape : {"object"}, items : {<<it>> : it \in ItemsFor(n) \ {NonObject}}]
    \cup [shape : {"lines"},
          items : {l \in ItemListsFor(n) : Len(l) >= 2 /\ \A i \in DOMAIN l : l[i].isObj}]

\* the output explored with outcome o: a command that did not exit 0 has
\* its stdout ignored by both controllers, the listings are left out there
PsOutputsOn(n, o) == IF o = "exit0" THEN PsOutputsFor(n) ELSE ScalarOutputs

NoOutput == [shape |-> "blank", items |-> <<>>]

\* what docker_client.containers.get / stats answer for a dockerfile service
DockerReplies == {"found_running", "found_exited", "not_found", "error"}

VARIABLES
    enabled,            \* [Services -> BOOLEAN]    descriptor 'enabled'
    kind,               \* [Services -> Kinds]      descriptor 'type' (legacy)
                        \* (the core controller has compose services only)
    pathState,          \* [Services -> PathStates] the file system
    running_services,   \* legacy DockerManager.running_services (its keys)
    cwd,                \* process working directory: Ghost = original, s = service s
    lastOp,             \* the call that returned last, with its observable effects
    now,                \* monitor: the clock, in minutes (datetime.now())
    alert_history,      \* monitor: [Services -> time of the last alert, or NoTime]
    lastTick,           \* monitor: what the health check just run did, per service
    issueAt,            \* monitor: time of the latest tick with issues, per service
    sentAt,             \* monitor: time of the latest issue notification, per service
                        \* (issueAt and sentAt restart at an issue-free tick)
    notifiedAt,         \* monitor: time of the latest issue notification, per
                        \* service, kept across issue-free ticks
    lastIssues,         \* monitor: the issues of the latest tick with issues, per service
    health_history,     \* monitor: [Services -> sequence of observations]
    observed,           \* monitor: number of statuses obtained so far, per service
    monitoring,         \* monitor: ServiceMonitor.monitoring, the loop is running
    polled,             \* monitor: the status handed to the health check just
                        \* run, per service
    notification,       \* monitor: shape of global_settings.notification in the file
    config_file,        \* config: the file at ConfigManager.config_path
    heap,               \* config: the ServiceConfig objects alive, by identity
    cm_services,        \* config: ConfigManager.services, name -> object (0: no key)
    cm_config,          \* config: ConfigManager.config, its services list holds objects
    dm_services,        \* config: DockerManager.services (core), name -> object
    updates,            \* config: update_service calls made so far
    max_lines,          \* panel: LogPanel.max_lines
    log_lines,          \* panel: LogPanel.log_lines, entries by ordinal of insertion
    lock,               \* panel: the thread that holds LogPanel.lock (0: free)
    pc,                 \* panel: where each thread is in its call
    added,              \* panel: entries appended so far
    cleared,            \* panel: value of 'added' when clear last ran
    menus,              \* menu: MenuSystem.menus, per menu id its items in order
    menu_stack,         \* menu: MenuSystem.menu_stack
    current_menu,       \* menu: MenuSystem.current_menu
    running,            \* menu: MenuSystem.running
    frames,             \* menu: the display_menu invocations active, outermost first
    last_choice         \* menu: what the latest input of the user was

mgrVars == <<enabled, kind, pathState, running_services, cwd>>
monVars == <<now, alert_history, lastTick, issueAt, sentAt, notifiedAt,
             lastIssues, health_history, observed, monitoring, polled,
             notification>>

cfgVars == <<config_file, heap, cm_services, cm_config, dm_services, updates>>
panelVars == <<max_lines, log_lines, lock, pc, added, cleared>>
menuVars == <<menus, menu_stack, current_menu, running, frames, last_choice>>
uiVars == <<panelVars, menuVars>>
appVars == <<cfgVars, uiVars>>

\* one invocation of an external command / docker client method
Call(c, s) == [cmd |-> c, svc |-> s]

\* value returned by a lifecycle operation
\*   ret     : the boolean returned (FALSE when raised)
\*   raised  : an exception left the operation
\*   calls   : the runner / docker client invocations made, in order
\*   running : running_services afterwards
\*   cwd     : working directory afterwards
Res(r, x, c, run, d) ==
    [ret |-> r, raised |-> x, calls |-> c, running |-> run, cwd |-> d]

\* ------------------------------------------------- legacy: docker_manager.py

\* _start_dockerfile_service: build the image, run the container, track it
StartDockerfileService(run, s, o) ==
    IF pathState[s] = "missing"
    THEN Res(FALSE, FALSE, <<>>, run, Ghost)
    ELSE IF o = "nonzero"                       \* images.build raises
    THEN Res(FALSE, FALSE, <<Call("docker_build", s)>>, run, Ghost)
    ELSE IF o = "raise"                         \* containers.run raises
    THEN Res(FALSE, FALSE, <<Call("docker_build", s), Call("docker_run", s)>>, run, Ghost)
    ELSE Res(TRUE, FALSE, <<Call("docker_build", s), Call("docker_run", s)>>,
             run \cup {s}, Ghost)

\* os.chdir(service_path) from directory d: raises, leaving the process
\* where it is, when the path does not exist
Chdir(d, s) == IF pathState[s] = "missing" THEN d ELSE s

\* the compose operations as a bug would have them: a path that returns
\* without os.chdir(original_cwd)
RestoreCwdForgotten(original, at) == at

\* os.chdir(original_cwd), from directory 'at'
RestoreCwd(original, at) == original

\* _start_compose_service as a bug would have it: the project is stored in
\* running_services before the result of compose up is looked at
StartComposeTracksEarly(run, s, o) ==
    IF pathState[s] = "missing"
    THEN Res(FALSE, FALSE, <<>>, run, cwd)
    ELSE IF pathState[s] # "dir_compose"
    THEN Res(FALSE, FALSE, <<>>, run, cwd)
    ELSE Res(o = "exit0", FALSE, <<Call("up", s)>>, run \cup {s}, cwd)

\* _start_compose_service: path and compose file checks, chdir, compose up -d,
\* chdir back on each of the three ways out
StartComposeService(run, s, o) ==
    IF pathState[s] = "missing"
    THEN Res(FALSE, FALSE, <<>>, run, cwd)
    ELSE IF pathState[s] # "dir_compose"
    THEN Res(FALSE, FALSE, <<>>, run, cwd)
    ELSE LET back == RestoreCwd(cwd, Chdir(cwd, s)) IN
         IF o = "exit0"
         THEN Res(TRUE, FALSE, <<Call("up", s)>>, run \cup {s}, back)
         ELSE Res(FALSE, FALSE, <<Call("up", s)>>, run, back)

\* DockerManager.start_service (legacy)
LegacyStartService(run, n, o) ==
    IF n \notin Services
    THEN Res(FALSE, FALSE, <<>>, run, Ghost)
    ELSE IF ~enabled[n]
    THEN Res(FALSE, FALSE, <<>>, run, Ghost)
    ELSE IF kind[n] = "dockerfile"
    THEN StartDockerfileService(run, n, o)
    ELSE StartComposeService(run, n, o)

\* _stop_dockerfile_service: untracked is a success without touching docker
StopDockerfileService(run, s, o) ==
    IF s \notin run
    THEN Res(TRUE, FALSE, <<>>, run, Ghost)
    ELSE IF o = "exit0"
    THEN Res(TRUE, FALSE, <<Call("docker_stop", s), Call("docker_remove", s)>>,
             run \ {s}, Ghost)
    ELSE Res(FALSE, FALSE, <<Call("docker_stop", s)>>, run, Ghost)

\* _stop_compose_service as a bug would have it: the untracked shortcut of the
\* dockerfile variant copied to the compose variant
StopComposeSkipsUntracked(run, s, o) ==
    IF s \notin run
    THEN Res(TRUE, FALSE, <<>>, run, Ghost)
    ELSE IF pathState[s] = "missing"
    THEN Res(FALSE, FALSE, <<>>, run, Ghost)
    ELSE IF o = "exit0"
    THEN Res(TRUE, FALSE, <<Call("down", s)>>, run \ {s}, Ghost)
    ELSE Res(FALSE, FALSE, <<Call("down", s)>>, run, Ghost)

\* _stop_compose_service: chdir (raises when the path is missing), compose down
StopComposeService(run, s, o) ==
    LET back == RestoreCwd(cwd, Chdir(cwd, s)) IN
    IF pathState[s] = "missing"
    THEN Res(FALSE, FALSE, <<>>, run, back)
    ELSE IF o = "exit0"
    THEN Res(TRUE, FALSE, <<Call("down", s)>>, run \ {s}, back)
    ELSE Res(FALSE, FALSE, <<Call("down", s)>>, run, back)

\* DockerManager.stop_service (legacy)
LegacyStopService(run, n, o) ==
    IF n \notin Services
    THEN Res(FALSE, FALSE, <<>>, run, Ghost)
    ELSE IF kind[n] = "dockerfile"
    THEN StopDockerfileService(run, n, o)
    ELSE StopComposeService(run, n, o)

\* DockerManager.restart_service (legacy), as a bug would have it: the start
\* is attempted whatever the stop returned
LegacyRestartAlwaysStarts(run, n, o1, o2) ==
    LET st == LegacyStopService(run, n, o1)
        sa == LegacyStartService(st.running, n, o2)
    IN  [ret |-> sa.ret, raised |-> FALSE, calls |-> st.calls \o sa.calls,
         running |-> sa.running, cwd |-> sa.cwd,
         stopRet |-> st.ret, startTried |-> TRUE, mid |-> st.running]

\* DockerManager.restart_service (legacy): stop, sleep 2s, start
LegacyRestartService(run, n, o1, o2) ==
    LET st == LegacyStopService(run, n, o1) IN
    IF st.ret
    THEN LET sa == LegacyStartService(st.running, n, o2) IN
         [ret |-> sa.ret, raised |-> FALSE, calls |-> st.calls \o sa.calls,
          running |-> sa.running, cwd |-> sa.cwd,
          stopRet |-> TRUE, startTried |-> TRUE, mid |-> st.running]
    ELSE [ret |-> FALSE, raised |-> FALSE, calls |-> st.calls,
          running |-> st.running, cwd |-> st.cwd,
          stopRet |-> FALSE, startTried |-> FALSE, mid |-> st.running]

\* the per-service entries of a bulk result map; "absent" = no entry
Entries == {"True", "False", "absent"}
Entry(b) == IF b THEN "True" ELSE "False"
NoEntries == [s \in Services |-> "absent"]

Bulk(res, x, c, run, d) ==
    [results |-> res, raised |-> x, calls |-> c, running |-> run, cwd |-> d]

\* DockerManager.start_all_services (legacy): the loop from service i on
RECURSIVE LegacyStartAllFrom(_, _, _)
LegacyStartAllFrom(i, acc, outs) ==
    IF i > NumServices THEN acc
    ELSE IF enabled[i]
    THEN LET r == LegacyStartService(acc.running, i, outs[i]) IN
         LegacyStartAllFrom(i + 1,
             Bulk([acc.results EXCEPT ![i] = Entry(r.ret)], FALSE,
                  acc.calls \o r.calls, r.running, r.cwd), outs)
    ELSE LegacyStartAllFrom(i + 1,
             Bulk([acc.results EXCEPT ![i] = "False"], FALSE,
                  acc.calls, acc.running, acc.cwd), outs)

LegacyStartAllServices(run, outs) ==
    LegacyStartAllFrom(1, Bulk(NoEntries, FALSE, <<>>, run, Ghost), outs)

\* DockerManager.stop_all_services (legacy): the loop from service i on
RECURSIVE LegacyStopAllFrom(_, _, _)
LegacyStopAllFrom(i, acc, outs) ==
    IF i > NumServices THEN acc
    ELSE LET r == LegacyStopService(acc.running, i, outs[i]) IN
         LegacyStopAllFrom(i + 1,
             Bulk([acc.results EXCEPT ![i] = Entry(r.ret)], FALSE,
                  acc.calls \o r.calls, r.running, r.cwd), outs)

LegacyStopAllServices(run, outs) ==
    LegacyStopAllFrom(1, Bulk(NoEntries, FALSE, <<>>, run, Ghost), outs)

\* ------------------------------------------- core: src/core/docker_manager.py

\* DockerManager.run_command (core): shell=True, check=True; only
\* CalledProcessError is caught, any other exception leaves the method
CoreRunCommand(o) ==
    CASE o = "exit0"   -> [success |-> TRUE,  raised |-> FALSE]
      [] o = "nonzero" -> [success |-> FALSE, raised |-> FALSE]
      [] OTHER         -> [success |-> FALSE, raised |-> TRUE]

\* the two core lifecycle operations differ in the compose verb only
CoreCompose(verb, n, o) ==
    IF n \notin Services
    THEN Res(FALSE, FALSE, <<>>, {}, Ghost)
    ELSE IF pathState[n] = "missing"
    THEN Res(FALSE, FALSE, <<>>, {}, Ghost)
    ELSE LET rc == CoreRunCommand(o) IN
         Res(rc.success, rc.raised, <<Call(verb, n)>>, {}, Ghost)

\* DockerManager.start_service (core)
CoreStartService(n, o) == CoreCompose("up", n, o)

\* DockerManager.stop_service (core)
CoreStopService(n, o) == CoreCompose("down", n, o)

\* DockerManager.restart_service (core)
CoreRestartService(n, o1, o2) ==
    LET st == CoreStopService(n, o1) IN
    IF st.raised
    THEN [ret |-> FALSE, raised |-> TRUE, calls |-> st.calls,
          stopRet |-> FALSE, startTried |-> FALSE]
    ELSE IF st.ret
    THEN LET sa == CoreStartService(n, o2) IN
         [ret |-> sa.ret, raised |-> sa.raised, calls |-> st.calls \o sa.calls,
          stopRet |-> TRUE, startTried |-> TRUE]
    ELSE [ret |-> FALSE, raised |-> FALSE, calls |-> st.calls,
          stopRet |-> FALSE, startTried |-> FALSE]

\* DockerManager.start_all_services (core): disabled services get no entry;
\* an exception in one start leaves the loop and the method
RECURSIVE CoreStartAllFrom(_, _, _)
CoreStartAllFrom(i, acc, outs) ==
    IF i > NumServices THEN acc
    ELSE IF enabled[i]
    THEN LET r == CoreStartService(i, outs[i]) IN
         IF r.raised
         THEN Bulk(acc.results, TRUE, acc.calls \o r.calls, {}, Ghost)
         ELSE CoreStartAllFrom(i + 1,
                  Bulk([acc.results EXCEPT ![i] = Entry(r.ret)], FALSE,
                       acc.calls \o r.calls, {}, Ghost), outs)
    ELSE CoreStartAllFrom(i + 1, acc, outs)

CoreStartAllServices(outs) ==
    CoreStartAllFrom(1, Bulk(NoEntries, FALSE, <<>>, {}, Ghost), outs)

\* DockerManager.stop_all_services (core)
RECURSIVE CoreStopAllFrom(_, _, _)
CoreStopAllFrom(i, acc, outs) ==
    IF i > NumServices THEN acc
    ELSE LET r == CoreStopService(i, outs[i]) IN
         IF r.raised
         THEN Bulk(acc.results, TRUE, acc.calls \o r.calls, {}, Ghost)
         ELSE CoreStopAllFrom(i + 1,
                  Bulk([acc.results EXCEPT ![i] = Entry(r.ret)], FALSE,
                       acc.calls \o r.calls, {}, Ghost), outs)

CoreStopAllServices(outs) ==
    CoreStopAllFrom(1, Bulk(NoEntries, FALSE, <<>>, {}, Ghost), outs)

\* ServerAssistant.start_all_services: the environment check returns {} when
\* a probe fails; when it passes, docker_manager.ensure_networks_exist is
\* called, which the core DockerManager does not define (AttributeError)
AssistantStartAllServices(o) ==
    LET probe == CoreRunCommand(o) IN
    IF probe.raised
    THEN Bulk(NoEntries, TRUE, <<Call("docker_version", Ghost)>>, {}, Ghost)
    ELSE IF ~probe.success
    THEN Bulk(NoEntries, FALSE, <<Call("docker_version", Ghost)>>, {}, Ghost)
    ELSE Bulk(NoEntries, TRUE,
              <<Call("docker_version", Ghost), Call("compose_version", Ghost),
                Call("docker_info", Ghost)>>, {}, Ghost)

\* ------------------------------------------------------ status operations

\* value returned by get_service_status
\*   status : ServiceStatus.status, or "None" when no status object is returned
St(v, x, c) == [status |-> v, raised |-> x, calls |-> c]

\* json.loads: a JSONDecodeError for blank, garbage and multi-line input
JsonLoads(out) ==
    IF out.shape \in {"blank", "garbage", "lines"}
    THEN [ok |-> FALSE, type |-> "none", items |-> <<>>]
    ELSE [ok |-> TRUE, type |-> out.shape, items |-> out.items]

\* Python truthiness of a parsed JSON value
Truthy(j) ==
    CASE j.type \in {"null", "empty_string", "empty_object"} -> FALSE
      [] j.type = "list" -> j.items # <<>>
      [] OTHER -> TRUE

\* container.get('State', 'unknown')
StateOf(item) == IF item.state = "nokey" THEN "unknown" ELSE item.state

\* core get_service_status, the for loop over containers from index i:
\* .get on a non-object raises AttributeError
RECURSIVE CoreScan(_, _, _)
CoreScan(n, items, i) ==
    IF i > Len(items) THEN [found |-> FALSE, raised |-> FALSE, status |-> "unknown"]
    ELSE IF ~items[i].isObj THEN [found |-> FALSE, raised |-> TRUE, status |-> "unknown"]
    ELSE IF items[i].svc = n
    THEN [found |-> TRUE, raised |-> FALSE, status |-> StateOf(items[i])]
    ELSE CoreScan(n, items, i + 1)

\* core get_service_status from json.loads on
CoreParseStatus(n, out, c) ==
    LET j == JsonLoads(out) IN
    IF ~j.ok THEN St("unknown", FALSE, c)                 \* JSONDecodeError: pass
    ELSE IF j.type \in {"number", "null"} THEN St("None", TRUE, c)  \* not iterable
    ELSE IF j.type = "string" THEN St("None", TRUE, c)    \* str has no .get
    ELSE IF j.type \in {"empty_string", "empty_object"} THEN St("unknown", FALSE, c)
    ELSE LET r == CoreScan(n, j.items, 1) IN
         IF r.raised THEN St("None", TRUE, c) ELSE St(r.status, FALSE, c)

\* core get_service_status as a bug would have it: empty output is parsed
\* like any other output
CoreGetServiceStatusNoEmptyCheck(n, o, out) ==
    IF n \notin Services THEN St("None", FALSE, <<>>)
    ELSE IF pathState[n] = "missing" THEN St("not_found", FALSE, <<>>)
    ELSE LET rc == CoreRunCommand(o)
             c  == <<Call("ps", n)>>
         IN  IF rc.raised THEN St("None", TRUE, c)
             ELSE IF ~rc.success THEN St("stopped", FALSE, c)
             ELSE CoreParseStatus(n, out, c)

\* DockerManager.get_service_status (core)
CoreGetServiceStatus(n, o, out) ==
    IF n \notin Services THEN St("None", FALSE, <<>>)
    ELSE IF pathState[n] = "missing" THEN St("not_found", FALSE, <<>>)
    ELSE LET rc == CoreRunCommand(o)
             c  == <<Call("ps", n)>>
         IN  IF rc.raised THEN St("None", TRUE, c)
             ELSE IF ~rc.success \/ out.shape = "blank" THEN St("stopped", FALSE, c)
             ELSE CoreParseStatus(n, out, c)

\* _get_dockerfile_status
GetDockerfileStatus(s, d) ==
    LET c == <<Call("docker_get", s)>> IN
    CASE d = "found_running" -> St("running", FALSE, c)
      [] d = "found_exited"  -> St("exited", FALSE, c)
      [] d = "not_found"     -> St("not_found", FALSE, c)
      [] OTHER               -> St("None", FALSE, c)

\* _get_compose_status: every exception ends in 'return None'; a falsy value
\* is 'not_running'; otherwise containers[0] speaks for the service
GetComposeStatus(s, o, out) ==
    IF pathState[s] = "missing" THEN St("None", FALSE, <<>>)     \* chdir raises
    ELSE LET c == <<Call("ps", s)>>
             j == JsonLoads(out)
         IN  IF o = "raise" THEN St("None", FALSE, c)
             ELSE IF o = "nonzero" THEN St("error", FALSE, c)
             ELSE IF ~j.ok THEN St("None", FALSE, c)
             ELSE IF ~Truthy(j) THEN St("not_running", FALSE, c)
             ELSE IF j.type # "list" THEN St("None", FALSE, c)   \* [0] raises
             ELSE IF ~j.items[1].isObj THEN St("None", FALSE, c) \* .get raises
             ELSE St(StateOf(j.items[1]), FALSE, c)

\* the working directory after _get_compose_status: os.chdir(original_cwd)
\* is called before each return and in both handlers
ComposeStatusCwd(s) == RestoreCwd(cwd, Chdir(cwd, s))

\* the working directory after get_service_status (legacy)
LegacyStatusCwd(n) ==
    IF n \in Services /\ kind[n] = "docker-compose" THEN ComposeStatusCwd(n) ELSE cwd

\* DockerManager.get_service_status (legacy) as a bug would have it: the
\* lookup result is used without the None check
LegacyGetServiceStatusNoGuard(n, o, out, d) ==
    IF n \notin Services THEN St("None", TRUE, <<>>)
    ELSE IF kind[n] = "dockerfile" THEN GetDockerfileStatus(n, d)
    ELSE GetComposeStatus(n, o, out)

\* DockerManager.get_service_status (legacy)
LegacyGetServiceStatus(n, o, out, d) ==
    IF n \notin Services THEN St("None", FALSE, <<>>)
    ELSE IF kind[n] = "dockerfile" THEN GetDockerfileStatus(n, d)
    ELSE GetComposeStatus(n, o, out)

\* ------------------------------------------------------------------- logs
\* value returned by get_service_logs
\*   text   : which string is returned ("-" when an exception leaves the call):
\*            "not_configured", "no_path" and "not_running" are the messages
\*            returned without asking for logs, "logs_error", "no_logs" and
\*            "logs" those returned after the logs command
\*   status : the status the method obtained ("-" when it asked for none)
Lg(t, x, c, v) == [text |-> t, raised |-> x, calls |-> c, status |-> v]

\* the compose command get_service_logs builds
LogsCmd(follow) == IF follow THEN "logs_f" ELSE "logs"

\* the statuses for which get_service_logs asks for the logs
LogStatuses == {"running", "up"}

\* get_service_logs (core) as a bug would have it: the logs are asked for
\* whatever the status
CoreGetServiceLogsAnyStatus(n, follow, o, out, o2, blank) ==
    IF n \notin Services THEN Lg("not_configured", FALSE, <<>>, "-")
    ELSE IF pathState[n] = "missing" THEN Lg("no_path", FALSE, <<>>, "-")
    ELSE LET st == CoreGetServiceStatus(n, o, out) IN
         IF st.raised THEN Lg("-", TRUE, st.calls, "None")
         ELSE LET rc == CoreRunCommand(o2)
                  c  == st.calls \o <<Call(LogsCmd(follow), n)>>
              IN  IF rc.raised THEN Lg("-", TRUE, c, st.status)
                  ELSE IF ~rc.success THEN Lg("logs_error", FALSE, c, st.status)
                  ELSE IF blank THEN Lg("no_logs", FALSE, c, st.status)
                  ELSE Lg("logs", FALSE, c, st.status)

\* DockerManager.get_service_logs (core): the logs command exits o2 and
\* prints nothing when blank
CoreGetServiceLogs(n, follow, o, out, o2, blank) ==
    IF n \notin Services THEN Lg("not_configured", FALSE, <<>>, "-")
    ELSE IF pathState[n] = "missing" THEN Lg("no_path", FALSE, <<>>, "-")
    ELSE LET st == CoreGetServiceStatus(n, o, out) IN
         IF st.raised THEN Lg("-", TRUE, st.calls, "None")
         ELSE IF st.status \notin LogStatuses
         THEN Lg("not_running", FALSE, st.calls, st.status)
         ELSE LET rc == CoreRunCommand(o2)
                  c  == st.calls \o <<Call(LogsCmd(follow), n)>>
              IN  IF rc.raised THEN Lg("-", TRUE, c, st.status)
                  ELSE IF ~rc.success THEN Lg("logs_error", FALSE, c, st.status)
                  ELSE IF blank THEN Lg("no_logs", FALSE, c, st.status)
                  ELSE Lg("logs", FALSE, c, st.status)

\* the logs command is run by get_service_logs for these inputs
AsksForLogs(n, o, out) ==
    /\ n \in Services
    /\ pathState[n] # "missing"
    /\ ~CoreGetServiceStatus(n, o, out).raised
    /\ CoreGetServiceStatus(n, o, out).status \in LogStatuses

\* ------------------------------------------ log panels: ui/display_utils.py
\* LogPanel, SimpleLogDisplay and RealTimeLogPanel have the same add_log,
\* get_logs and clear
Threads == 1..NumThreads

\* the slice lines[-k:]: the last k elements, and for k = 0 (where -k is 0)
\* the slice lines[0:], the whole list
LastSlice(lines, k) ==
    IF k = 0 THEN lines
    ELSE IF Len(lines) <= k THEN lines
    ELSE SubSeq(lines, Len(lines) - k + 1, Len(lines))

\* add_log under the lock, after the append: the truncation
Truncate(lines, k) == IF Len(lines) > k THEN LastSlice(lines, k) ELSE lines

\* ---------------------------------------------- menus: ui/menu_system.py
\* a menu id; the control menu of a service carries the service
MenuId(id, s) == [id |-> id, svc |-> s]
NoMenu == MenuId("none", Ghost)
MainMenu == MenuId("main", Ghost)
ServiceManagement == MenuId("service_management", Ghost)
SetupMenu == MenuId("setup", Ghost)
TestingMenu == MenuId("testing", Ghost)
IndividualServices == MenuId("individual_services", Ghost)
ServiceLogs == MenuId("service_logs", Ghost)
ServiceControl(s) == MenuId("service_control", s)

MenuIds ==
    {MainMenu, ServiceManagement, SetupMenu, TestingMenu, IndividualServices,
     ServiceLogs} \cup {ServiceControl(s) : s \in Services}

\* the longest chain of menus, each displayed by an item of the one before
LongestChain ==
    <<MainMenu, ServiceManagement, IndividualServices,
      ServiceControl(CHOOSE s \in Services : TRUE)>>

TreeDepth == Len(LongestChain)

\* a MenuItem: its key and the menu its action displays (NoMenu: the action
\* displays no menu)
Item(k, opens) == [key |-> k, opens |-> opens]

NoMenus == [m \in MenuIds |-> [present |-> FALSE, items |-> <<>>]]

\* MenuSystem.add_menu
AddMenu(ms, m) ==
    IF ms[m].present THEN ms
    ELSE [ms EXCEPT ![m] = [present |-> TRUE, items |-> <<>>]]

\* MenuSystem.add_menu_item: the item is appended, whatever the menu holds
AddMenuItem(ms, m, it) ==
    LET a == AddMenu(ms, m) IN
    [a EXCEPT ![m].items = Append(a[m].items, it)]

RECURSIVE AddItems(_, _, _)
AddItems(ms, m, its) ==
    IF its = <<>> THEN ms
    ELSE AddItems(AddMenuItem(ms, m, Head(its)), m, Tail(its))

\* create_main_menu, create_service_management_menu, create_setup_menu and
\* create_testing_menu, as main calls them
CreateMenus ==
    LET a == AddItems(AddMenu(NoMenus, MainMenu), MainMenu,
                 <<Item(1, ServiceManagement), Item(2, SetupMenu),
                   Item(3, TestingMenu), Item(4, NoMenu), Item(5, NoMenu),
                   Item(6, NoMenu), Item(7, NoMenu)>>)
        b == AddItems(AddMenu(a, ServiceManagement), ServiceManagement,
                 <<Item(1, NoMenu), Item(2, NoMenu), Item(3, NoMenu),
                   Item(4, IndividualServices), Item(5, NoMenu),
                   Item(6, ServiceLogs)>>)
        c == AddItems(AddMenu(b, SetupMenu), SetupMenu,
                 [k \in 1..5 |-> Item(k, NoMenu)])
    IN  AddItems(AddMenu(c, TestingMenu), TestingMenu,
                 [k \in 1..5 |-> Item(k, NoMenu)])

\* the menus built when they are asked for and deleted when their
\* display_menu returns
IsTemp(m) == m.id \in {"individual_services", "service_logs", "service_control"}

\* _show_individual_service_menu, _show_service_logs_menu and
\* _show_service_control_menu up to their call of display_menu: add_menu,
\* then one add_menu_item per service / per operation
BuildMenu(ms, m) ==
    CASE m = IndividualServices ->
            AddItems(AddMenu(ms, m), m, [i \in Services |-> Item(i, ServiceControl(i))])
      [] m = ServiceLogs ->
            AddItems(AddMenu(ms, m), m, [i \in Services |-> Item(i, NoMenu)])
      [] m.id = "service_control" ->
            AddItems(AddMenu(ms, m), m, [k \in 1..5 |-> Item(k, NoMenu)])
      [] OTHER -> ms

\* the keys a menu shows
KeysOf(ms, m) == {ms[m].items[i].key : i \in DOMAIN ms[m].items}

\* the loop over the items that stops at the first one of key k
Selected(ms, m, k) ==
    LET at == {i \in DOMAIN ms[m].items : ms[m].items[i].key = k} IN
    ms[m].items[CHOOSE i \in at : \A j \in at : i <= j]

\* one display_menu invocation
\*   at   : "loop" at the head of its while loop, "in_action" inside the
\*          action of an item, "in_back" inside the display_menu call of the
\*          branch of choice 0, "done" past its loop
\*   temp : the caller deletes the menu when this invocation returns
Frame(m, at, temp) == [menu |-> m, at |-> at, temp |-> temp]

\* the entry of display_menu(m): nothing for a menu that is not there;
\* otherwise the id is pushed unless it is on top already, and it becomes
\* the current menu
Entered(ms, stack, cur, m) ==
    IF ~ms[m].present THEN [in |-> FALSE, stack |-> stack, current |-> cur]
    ELSE [in |-> TRUE,
          stack |-> IF stack = <<>> \/ stack[Len(stack)] # m
                    THEN Append(stack, m) ELSE stack,
          current |-> m]

\* the loop condition of display_menu as it would be without self.running
LoopContinuesWhileCurrent(m) == current_menu = m

\* while self.running and self.current_menu == menu_id
LoopContinues(m) == running /\ current_menu = m

\* ------------------------------------ configuration: core/config_manager.py
\* a value as JSON text has it and as Python has it: a key that is not in
\* the object ("absent"), JSON null, Python None, or the value itself
Absent == "absent"
JsonNull == "null"
PyNone == "None"

\* one object of the 'services' array of the file
\*   extra : the object has a key that is no field of ServiceConfig
FileEntry(n, e, p, po, h, x) ==
    [name |-> n, enabled |-> e, path |-> p, port |-> po, health_check |-> h,
     depends_on |-> Absent, extra |-> x]

FilePorts == {Absent, JsonNull, "80"}
FileHealthChecks == {Absent, "/health"}

\* the entries explored: every combination of the optional fields, an entry
\* with no 'path' and an entry with an unknown key
FileEntries ==
    {FileEntry(n, e, "dir", po, h, FALSE) :
        n \in Services, e \in BOOLEAN, po \in FilePorts, h \in FileHealthChecks}
    \cup {FileEntry(1, TRUE, Absent, Absent, Absent, FALSE),
          FileEntry(1, TRUE, "dir", Absent, Absent, TRUE)}

\* the file: missing, not JSON, or a JSON object with a 'services' array
\*   saved : the content was written by save_config
File(ex, js, es, sv) == [exists |-> ex, json |-> js, entries |-> es, saved |-> sv]
NoFile == File(FALSE, FALSE, <<>>, FALSE)

NoKeys == [s \in Services |-> 0]
NoConfig == [set |-> FALSE, services |-> <<>>]

\* json.load of a value: null becomes None
FromJson(v) == IF v = JsonNull THEN PyNone ELSE v

\* the value of a dataclass field: the default None for a key not given
Field(v) == IF v = Absent THEN PyNone ELSE FromJson(v)

\* ServiceConfig(**service_data): TypeError for a missing required field and
\* for an unknown key
Accepted(e) == ~e.extra /\ e.path # Absent

ServiceConfigOf(e) ==
    [name |-> e.name, enabled |-> e.enabled, path |-> e.path,
     port |-> Field(e.port), health_check |-> Field(e.health_check),
     depends_on |-> Field(e.depends_on)]

\* json.dump of a value: None becomes null
ToJson(v) == IF v = PyNone THEN JsonNull ELSE v

\* asdict and json.dump as a bug would have them: the port written as text
ServiceAsDictPortText(d) ==
    [name |-> d.name, enabled |-> d.enabled, path |-> d.path,
     port |-> IF d.port = PyNone THEN JsonNull ELSE "text",
     health_check |-> ToJson(d.health_check),
     depends_on |-> ToJson(d.depends_on), extra |-> FALSE]

\* asdict of one ServiceConfig, as json.dump writes it: every field is a key
ServiceAsDict(d) ==
    [name |-> d.name, enabled |-> d.enabled, path |-> d.path,
     port |-> ToJson(d.port), health_check |-> ToJson(d.health_check),
     depends_on |-> ToJson(d.depends_on), extra |-> FALSE]

\* the state of the two components that hold descriptors
\*   heap     : the ServiceConfig objects, in order of creation
\*   services : ConfigManager.services
\*   config   : ConfigManager.config
\*   dm       : DockerManager.services
Mem(h, sv, c, dm) == [heap |-> h, services |-> sv, config |-> c, dm |-> dm]

\* the objects some component still refers to
Live(m) ==
    {i \in DOMAIN m.heap :
        \/ \E s \in Services : m.services[s] = i \/ m.dm[s] = i
        \/ \E k \in DOMAIN m.config.services : m.config.services[k] = i}

\* an object nothing refers to is gone; the others keep their order
Collect(m) ==
    LET live == Live(m)
        rank(i) == Cardinality({j \in live : j <= i})
        at(k) == CHOOSE i \in live : rank(i) = k
        move(i) == IF i = 0 THEN 0 ELSE rank(i)
    IN  Mem([k \in 1..Cardinality(live) |-> m.heap[at(k)]],
            [s \in Services |-> move(m.services[s])],
            [set |-> m.config.set,
             services |-> [k \in DOMAIN m.config.services |->
                              move(m.config.services[k])]],
            [s \in Services |-> move(m.dm[s])])

\* the loop of load_config over the first k entries: one new object per
\* entry, stored under its name, a later entry of the same name wins
RECURSIVE Register(_, _, _, _)
Register(sv, es, k, base) ==
    IF k = 0 THEN sv
    ELSE [Register(sv, es, k - 1, base) EXCEPT ![es[k].name] = base + k]

\* ConfigManager.load_config: value returned and memory afterwards
\*   a missing file and a file that is not JSON change nothing; an entry
\*   ServiceConfig rejects ends the loop, the entries before it are
\*   registered and config stays what it was
LoadConfig(f, m) ==
    IF ~f.exists \/ ~f.json THEN [ret |-> FALSE, mem |-> m]
    ELSE LET bad == {k \in DOMAIN f.entries : ~Accepted(f.entries[k])}
             n == IF bad = {} THEN Len(f.entries)
                  ELSE (CHOOSE k \in bad : \A j \in bad : k <= j) - 1
             base == Len(m.heap)
             objs == [k \in 1..n |-> ServiceConfigOf(f.entries[k])]
             sv == Register(m.services, f.entries, n, base)
         IN  [ret |-> bad = {},
              mem |-> Collect(Mem(m.heap \o objs, sv,
                         IF bad = {}
                         THEN [set |-> TRUE, services |-> [k \in 1..n |-> base + k]]
                         ELSE m.config,
                         m.dm))]

\* ConfigManager.save_config: value returned and file afterwards
\*   writable : open(config_path, 'w') succeeds
SaveConfig(f, m, writable) ==
    IF ~m.config.set THEN [ret |-> FALSE, file |-> f]
    ELSE IF ~writable THEN [ret |-> FALSE, file |-> f]
    ELSE [ret |-> TRUE,
          file |-> File(TRUE, TRUE,
                        [k \in DOMAIN m.config.services |->
                            ServiceAsDict(m.heap[m.config.services[k]])],
                        TRUE)]

\* ConfigManager.get_all_services: a copy of the dict, the same objects
GetAllServices(m) == m.services

\* DockerManager.set_services (core)
SetServices(m, sv) == Collect(Mem(m.heap, m.services, m.config, sv))

\* the keyword arguments explored for update_service; "colour" is no field
UpdateKeys == {"enabled", "path", "name", "colour"}

\* setattr(service, key, value) when hasattr(service, key)
SetAttr(d, key, b) ==
    CASE key = "enabled" -> [d EXCEPT !.enabled = b]
      [] key = "path" -> [d EXCEPT !.path = "moved"]
      [] OTHER -> d

\* value of an update: what was returned, whether an exception left the
\* call, memory and file afterwards
Upd(r, x, m, f) == [ret |-> r, raised |-> x, mem |-> m, file |-> f]

\* update_service as it would be if its first parameter could not be given
\* by keyword: name=n reaches setattr
UpdateServiceRenames(f, m, name, key, b, n, writable) ==
    IF name \notin Services THEN Upd(FALSE, FALSE, m, f)
    ELSE IF m.services[name] = 0 THEN Upd(FALSE, FALSE, m, f)
    ELSE LET i == m.services[name]
             m2 == [m EXCEPT !.heap[i] =
                       IF key = "name" THEN [m.heap[i] EXCEPT !.name = n]
                       ELSE SetAttr(m.heap[i], key, b)]
             sv == SaveConfig(f, m2, writable)
         IN  Upd(sv.ret, FALSE, m2, sv.file)

\* ConfigManager.update_service(name, key=value): a keyword 'name' collides
\* with the first parameter (TypeError at the call); otherwise the attribute
\* is set on the registered object, then the configuration is saved
UpdateService(f, m, name, key, b, n, writable) ==
    IF key = "name" THEN Upd(FALSE, TRUE, m, f)
    ELSE IF name \notin Services THEN Upd(FALSE, FALSE, m, f)
    ELSE IF m.services[name] = 0 THEN Upd(FALSE, FALSE, m, f)
    ELSE LET i == m.services[name]
             m2 == [m EXCEPT !.heap[i] = SetAttr(m.heap[i], key, b)]
             sv == SaveConfig(f, m2, writable)
         IN  Upd(sv.ret, FALSE, m2, sv.file)

\* ServerAssistant.update_service_config: set_services after a successful
\* update only
UpdateServiceConfig(f, m, name, key, b, n, writable) ==
    LET u == UpdateService(f, m, name, key, b, n, writable) IN
    IF u.raised THEN u
    ELSE IF u.ret
    THEN Upd(TRUE, FALSE, SetServices(u.mem, GetAllServices(u.mem)), u.file)
    ELSE Upd(FALSE, FALSE, u.mem, u.file)

\* ServerAssistant._load_configuration: set_services after a load that
\* returned True
LoadConfiguration(f, m) ==
    LET l == LoadConfig(f, m) IN
    IF l.ret THEN SetServices(l.mem, GetAllServices(l.mem)) ELSE l.mem

\* the files explored: none, one that is not JSON, and every 'services'
\* array of up to NumServices entries
ConfigFileUniverse ==
    {NoFile, File(TRUE, FALSE, <<>>, FALSE)}
    \cup {File(TRUE, TRUE, es, FALSE) : es \in SeqsUpTo(FileEntries, NumServices)}

\* the files of a working installation: one entry per service
ValidFiles ==
    {File(TRUE, TRUE, [s \in Services |-> FileEntry(s, en[s], "dir", Absent, Absent, FALSE)],
          FALSE) : en \in [Services -> BOOLEAN]}

\* what DockerManager.services shows under key s (NoDescriptor: no key)
NoDescriptor ==
    [name |-> Ghost, enabled |-> FALSE, path |-> Absent, port |-> PyNone,
     health_check |-> PyNone, depends_on |-> PyNone]
Seen(h, refs) ==
    [s \in Services |-> IF refs[s] = 0 THEN NoDescriptor ELSE h[refs[s]]]

\* what the components show of the descriptors
\*   descriptors : ConfigManager.config.services, in order
\*   registered  : ConfigManager.services, by key
\*   seen        : DockerManager.services, by key
Snapshot(m) ==
    [descriptors |-> [k \in DOMAIN m.config.services |->
                         m.heap[m.config.services[k]]],
     registered |-> Seen(m.heap, m.services),
     seen |-> Seen(m.heap, m.dm)]
NoSnapshot ==
    [descriptors |-> <<>>, registered |-> [s \in Services |-> NoDescriptor],
     seen |-> [s \in Services |-> NoDescriptor]]

\* ------------------------------------------------- the command line: main
\* the configuration file as the loaders find it
\*   ok         : loads and passes validate_config
\*   invalid    : loads, validate_config reports errors
\*   missing    : no such file
\*   bad_json   : not JSON
\*   bad_schema : JSON with a service entry ServiceConfig(**entry) rejects
ConfigFiles == {"ok", "invalid", "missing", "bad_json", "bad_schema"}

\* ConfigManager.load_config returns True
LoadOk(cfg) == cfg \in {"ok", "invalid"}

Actions == {"status", "start", "stop", "restart", "start-all", "stop-all", "logs"}
SingleTarget == {"start", "stop", "restart"}
BulkActions == {"start-all", "stop-all"}

\* what 'compose ps' does for one service when main asks for it
PollRunning(n) ==
    [o |-> "exit0",
     out |-> [shape |-> "list",
              items |-> <<[isObj |-> TRUE, svc |-> n, state |-> "running"]>>]]
PollStopped == [o |-> "nonzero", out |-> NoOutput]
PollRaises == [o |-> "raise", out |-> NoOutput]
CliPolls(n) == {PollRunning(n), PollStopped, PollRaises}

\* value of one ServerAssistant call made by main
\*   ret : the boolean returned (FALSE for the calls that return none)
Cl(r, x) == [ret |-> r, raised |-> x]

\* ServerAssistant.start_service: the environment check, then
\* docker_manager.ensure_networks_exist, which the core DockerManager does
\* not define (AttributeError)
AssistantStartService(n, o) ==
    LET probe == CoreRunCommand(o) IN
    IF probe.raised THEN Cl(FALSE, TRUE)
    ELSE IF ~probe.success THEN Cl(FALSE, FALSE)
    ELSE Cl(FALSE, TRUE)

\* DockerManager.get_all_service_status (core): an exception in one status
\* leaves the method
CoreGetAllServiceStatus(loaded, polls) ==
    Cl(FALSE, loaded /\ \E s \in Services :
                  CoreGetServiceStatus(s, polls[s].o, polls[s].out).raised)

\* the ServerAssistant call main makes for an action; after a failed load
\* the registry of the controller is empty, every name is unknown to it
Dispatch(loaded, action, n, o1, o2, outs, polls) ==
    LET m == IF loaded THEN n ELSE Ghost IN
    CASE action = "start" -> AssistantStartService(m, o1)
      [] action = "stop" ->
            LET r == CoreStopService(m, o1) IN Cl(r.ret, r.raised)
      [] action = "restart" ->
            LET r == CoreRestartService(m, o1, o2) IN Cl(r.ret, r.raised)
      [] action = "start-all" ->
            Cl(FALSE, AssistantStartAllServices(o1).raised)
      [] action = "stop-all" ->
            Cl(FALSE, loaded /\ CoreStopAllServices(outs).raised)
      [] action = "status" -> CoreGetAllServiceStatus(loaded, polls)
      [] OTHER ->
            Cl(FALSE, CoreGetServiceLogs(m, FALSE, polls[IF n \in Services THEN n ELSE 1].o,
                                         polls[IF n \in Services THEN n ELSE 1].out,
                                         o2, FALSE).raised)

\* value of a run of main
\*   exit    : the exit code of the process
\*   invoked : the ServerAssistant operation of the action was called
\*   ret, raised : what that call returned / an exception left it
Ex(code, inv, r, x) == [exit |-> code, invoked |-> inv, ret |-> r, raised |-> x]

\* main (src/main.py, and src/src/main.py with --cli): ServerAssistant() is
\* built, a failed load only prints; the action is dispatched and its result
\* dropped; KeyboardInterrupt and Exception end in sys.exit(1)
Main(cfg, action, n, o1, o2, outs, polls, interrupt) ==
    LET r == Dispatch(LoadOk(cfg), action, n, o1, o2, outs, polls) IN
    IF interrupt THEN Ex(1, TRUE, FALSE, FALSE)
    ELSE IF r.raised THEN Ex(1, TRUE, FALSE, TRUE)
    ELSE Ex(0, TRUE, r.ret, FALSE)

\* the configuration files the legacy loader tells apart (it has no schema)
LegacyConfigFiles == {"ok", "missing", "bad_json"}

\* monitor.py main with --summary: DockerManager._load_config ends the
\* process with sys.exit(1) on a missing file and on invalid JSON, before
\* the monitor exists; KeyboardInterrupt is answered with a message only
MonitorMain(cfg, interrupt) ==
    IF cfg # "ok" THEN Ex(1, FALSE, FALSE, FALSE)
    ELSE Ex(0, TRUE, FALSE, FALSE)

\* ----------------------------------------------------- the command runners
\* text a command leaves on stdout or stderr: nothing, some text, the text
\* of an OSError, the shell's 'not found' message
Texts == {"empty", "text", "errno", "not_found"}

ExitCodes == {0, 1, 127}
NoCode == -1                        \* the runner does not hand the exit code on

Runners == {"core", "legacy", "utils"}
Platforms == {"linux", "windows"}

\* subprocess.run: the child is not started when cwd is not a directory or,
\* without a shell, when the executable is not found; with a shell a missing
\* executable is exit code 127 of the shell
SubprocessRun(shell, found, cwdOk, code, out, err) ==
    IF ~cwdOk
    THEN [started |-> FALSE, code |-> NoCode, stdout |-> "empty", stderr |-> "empty"]
    ELSE IF ~found
    THEN IF shell
         THEN [started |-> TRUE, code |-> 127, stdout |-> "empty", stderr |-> "not_found"]
         ELSE [started |-> FALSE, code |-> NoCode, stdout |-> "empty", stderr |-> "empty"]
    ELSE [started |-> TRUE, code |-> code, stdout |-> out, stderr |-> err]

\* what the caller of a runner gets
Ran(x, ok, c, out, err) ==
    [raised |-> x, success |-> ok, code |-> c, stdout |-> out, stderr |-> err]

\* core DockerManager.run_command: shell=True, check=True, only
\* CalledProcessError is caught
CoreRunCommandOn(p) ==
    IF ~p.started THEN Ran(TRUE, FALSE, NoCode, "empty", "empty")
    ELSE Ran(FALSE, p.code = 0, NoCode, p.stdout, p.stderr)

\* legacy DockerManager._run_command: check=False, the CompletedProcess is
\* returned, an exception is logged and raised again
LegacyRunCommandOn(p) ==
    IF ~p.started THEN Ran(TRUE, FALSE, NoCode, "empty", "empty")
    ELSE Ran(FALSE, p.code = 0, p.code, p.stdout, p.stderr)

\* SystemUtils.run_command: as the core runner, and any other exception
\* becomes (False, "", str(e))
SystemUtilsRunCommandOn(p) ==
    IF ~p.started THEN Ran(FALSE, FALSE, NoCode, "empty", "errno")
    ELSE Ran(FALSE, p.code = 0, NoCode, p.stdout, p.stderr)

\* the runner impl on platform pf, given what the command would do
RunCommand(impl, pf, found, cwdOk, code, out, err) ==
    CASE impl = "core" ->
            CoreRunCommandOn(SubprocessRun(TRUE, found, cwdOk, code, out, err))
      [] impl = "legacy" ->
            LegacyRunCommandOn(SubprocessRun(pf = "windows", found, cwdOk, code, out, err))
      [] OTHER ->
            SystemUtilsRunCommandOn(SubprocessRun(TRUE, found, cwdOk, code, out, err))

\* ------------------------------------------------------ monitor: monitor.py
AlertWindow == 15                   \* minutes between two alerts for one service
UsageLimit == 90                    \* percent of memory / CPU above which is an issue
NoTime == -1                        \* no entry in alert_history
NoCpu == -1                         \* cpu_usage is None

\* ServiceStatus.memory_usage: None, "N/A", text that float() rejects, or "<pct>%"
MemNone == [tag |-> "none", pct |-> 0]
MemNA == [tag |-> "na", pct |-> 0]
MemJunk == [tag |-> "junk", pct |-> 0]
MemPct(p) == [tag |-> "pct", pct |-> p]

\* what one poll of a service gives: no status at all (get_service_status
\* returned None), or a ServiceStatus with the outcome of the custom probe
\* ("none" when the service has no 'health_check')
NoStatus ==
    [got |-> FALSE, status |-> "None", health |-> "unknown", mem |-> MemNone,
     cpu |-> NoCpu, probe |-> "none"]
Polled(st, h, m, c, pr) ==
    [got |-> TRUE, status |-> st, health |-> h, mem |-> m, cpu |-> c, probe |-> pr]

PollSamples ==
    { NoStatus,
      Polled("running", "healthy", MemPct(50), 50, "none"),
      Polled("exited", "unknown", MemNone, NoCpu, "none"),
      Polled("running", "healthy", MemPct(95), 50, "pass") }

\* the statuses and probe outcomes a health check can be handed: memory and
\* CPU below, at and above the limit; probe "none" = no 'health_check' in the
\* service, "fail" = status code other than 200, exit code other than 0, or
\* an exception of the probe, "timeout" = subprocess.TimeoutExpired
ProbeOutcomes == {"none", "pass", "fail", "timeout"}
MemoryUsages ==
    {MemNone, MemNA, MemJunk, MemPct(0), MemPct(UsageLimit), MemPct(UsageLimit + 1)}
CpuUsages == {NoCpu, 0, UsageLimit, UsageLimit + 1}
PollUniverse ==
    {Polled(st, h, m, c, pr) :
        st \in {"running", "exited"}, h \in {"healthy", "unhealthy", "unknown"},
        m \in MemoryUsages, c \in CpuUsages, pr \in ProbeOutcomes}

\* _check_service_health as a bug would have it: usage at the limit counts
IssuesOfAtLimit(p) ==
    (IF p.status # "running" THEN {"not_running"} ELSE {})
    \cup (IF p.health = "unhealthy" THEN {"unhealthy"} ELSE {})
    \cup (IF p.mem.tag = "pct" /\ p.mem.pct >= UsageLimit THEN {"memory"} ELSE {})
    \cup (IF p.cpu # NoCpu /\ p.cpu # 0 /\ p.cpu >= UsageLimit THEN {"cpu"} ELSE {})
    \cup (IF p.probe \in {"fail", "timeout"} THEN {"probe"} ELSE {})

\* _check_service_health, lines 101-125: the issue list, as a set of tags
IssuesOf(p) ==
    (IF p.status # "running" THEN {"not_running"} ELSE {})
    \cup (IF p.health = "unhealthy" THEN {"unhealthy"} ELSE {})
    \cup (IF p.mem.tag = "pct" /\ p.mem.pct > UsageLimit THEN {"memory"} ELSE {})
    \cup (IF p.cpu # NoCpu /\ p.cpu # 0 /\ p.cpu > UsageLimit THEN {"cpu"} ELSE {})
    \cup (IF p.probe \in {"fail", "timeout"} THEN {"probe"} ELSE {})

\* _handle_service_issues as a bug would have it: the alert time is not
\* recorded after sending
HandleServiceIssuesForgets(alert, t) ==
    [send |-> (alert = NoTime \/ t - alert > AlertWindow), alert |-> alert]

\* _handle_service_issues: send unless an alert went out within the window
HandleServiceIssues(alert, t) ==
    IF alert = NoTime \/ t - alert > AlertWindow
    THEN [send |-> TRUE, alert |-> t]
    ELSE [send |-> FALSE, alert |-> alert]

\* global_settings.notification as the configuration file gives it: an
\* object (possibly empty), or the JSON value null
NotificationConfigs == {"object", "null"}

\* _send_notifications raises: "'email' in notification_config" is a
\* TypeError when the configured value is null
SendRaises(cfg) == cfg = "null"

HistoryCap == 100                   \* records kept per service in health_history

\* _check_service_health, lines 83-99, as a bug would have it: the oldest
\* records are kept on overflow
RecordHealthKeepsOldest(hist, k) ==
    LET h == Append(hist, k) IN
    IF Len(h) > HistoryCap THEN SubSeq(h, 1, HistoryCap) ELSE h

\* _check_service_health, lines 83-99: append the record of observation k,
\* keep the last 100.  A record is identified by the ordinal of the
\* observation; its fields (timestamp, status, health, usage) play no part
\* in what is kept
RecordHealth(hist, k) ==
    LET h == Append(hist, k) IN
    IF Len(h) > HistoryCap
    THEN SubSeq(h, Len(h) - HistoryCap + 1, Len(h))
    ELSE h

\* lastTick[s]: what the health check did for service s
\*   kind    : "skipped" (disabled or no check run), "unavailable", "healthy", "issues"
\*   sent    : _send_notifications was called
\*   raised  : an exception left the check of this service
\*   issues  : the issues found
\*   prevIssueAt, prevSentAt, prevNotifiedAt, prevIssues : issueAt[s],
\*             sentAt[s], notifiedAt[s] and lastIssues[s] before this check
NoTick ==
    [kind |-> "skipped", sent |-> FALSE, raised |-> FALSE, issues |-> {},
     prevIssueAt |-> NoTime, prevSentAt |-> NoTime, prevNotifiedAt |-> NoTime,
     prevIssues |-> {}]

\* the record of a check of service s that was run
Ticked(s, k, snt, iss) ==
    [kind |-> k, sent |-> snt, raised |-> FALSE, issues |-> iss,
     prevIssueAt |-> issueAt[s], prevSentAt |-> sentAt[s],
     prevNotifiedAt |-> notifiedAt[s], prevIssues |-> lastIssues[s]]

\* alert_history.get(alert_key) with one key for all services, as a bug
\* would have it: the latest alert of any service
LastAlertOfAny(s) ==
    CHOOSE t \in {alert_history[x] : x \in Services} :
        \A x \in Services : alert_history[x] <= t

\* _handle_service_issues, lines 175-176: the entry under "<name>_issues"
LastAlert(s) == alert_history[s]

\* _clear_service_alerts as a bug would have it: the entry stays
ClearServiceAlertsKeeps(alert) == alert

\* _clear_service_alerts: the entry of the service is deleted
ClearServiceAlerts(alert) == NoTime

\* _handle_service_unavailable with the cool-down applied, as a bug would
\* have it
HandleServiceUnavailableQuiet(alert, t) ==
    [send |-> (alert = NoTime \/ t - alert > AlertWindow), alert |-> alert]

\* _handle_service_unavailable: notify, alert_history is not looked at
HandleServiceUnavailable(alert, t) == [send |-> TRUE, alert |-> alert]

\* check_all_services, the body of the loop for service s polled as p, when
\* nothing raises: the new alert_history entry, the new health_history, the
\* number of observations and the record of what was done
CheckService(s, p) ==
    LET seen == observed[s] + 1
        hist == RecordHealth(health_history[s], seen)
    IN
    IF ~enabled[s]
    THEN [alert |-> alert_history[s], tick |-> NoTick,
          hist |-> health_history[s], seen |-> observed[s]]
    ELSE IF ~p.got
    THEN LET u == HandleServiceUnavailable(alert_history[s], now) IN
         [alert |-> u.alert, tick |-> Ticked(s, "unavailable", u.send, {}),
          hist |-> health_history[s], seen |-> observed[s]]
    ELSE IF IssuesOf(p) = {}
    THEN [alert |-> ClearServiceAlerts(alert_history[s]),
          tick |-> Ticked(s, "healthy", FALSE, {}),
          hist |-> hist, seen |-> seen]
    ELSE LET h == HandleServiceIssues(LastAlert(s), now) IN
         [alert |-> IF h.send THEN h.alert ELSE alert_history[s],
          tick |-> Ticked(s, "issues", h.send, IssuesOf(p)),
          hist |-> hist, seen |-> seen]

\* the check of service s when _send_notifications raises: the record was
\* appended, the alert time is not stored
Aborted(s, r) ==
    [alert |-> alert_history[s], tick |-> [r.tick EXCEPT !.raised = TRUE],
     hist |-> r.hist, seen |-> r.seen]

\* the services after the one whose check raised are not looked at
Unchecked(s) ==
    [alert |-> alert_history[s], tick |-> NoTick,
     hist |-> health_history[s], seen |-> observed[s]]

\* check_all_services from the first service to the last, polled as poll:
\* the loop has no handler, the first exception ends it
CheckAll(poll) ==
    LET r == [s \in Services |-> CheckService(s, poll[s])]
        raising == {s \in Services : r[s].tick.sent /\ SendRaises(notification)}
        first == IF raising = {} THEN NumServices + 1
                 ELSE CHOOSE s \in raising : \A x \in raising : s <= x
    IN [s \in Services |->
            IF s < first THEN r[s]
            ELSE IF s = first THEN Aborted(s, r[s])
            ELSE Unchecked(s)]

\* ----------------------------------------------------------------- state
\* lastOp: what the last call did
\*   impl, op, name : which controller, which operation, which argument
\*   ret, raised    : boolean returned / an exception left the call
\*   calls          : external invocations made, in order
\*   pre            : running_services before the call
\*   o1, o2         : outcome of the first / second external command
\*   outs           : outcomes per service (bulk operations)
\*   results        : result map (bulk operations)
\*   stopRet, startTried, mid : restart: result of the stop step, whether
\*                    start was called, running_services between the steps
\*   status, out, reply : status operations: the status returned ("-" for
\*                    other operations), the ps output and the docker reply
NoOuts == [s \in Services |-> "exit0"]

NoPolls == [s \in Services |-> [o |-> "nonzero", out |-> NoOutput]]

\* lastOp.run: the command handed to a runner and what the runner gave back
\*   platform, found, cwdOk, code, out, err : the platform, whether the
\*       executable and the working directory exist, and what the command
\*       does when it runs
\*   res : the value of Ran the caller gets
NoRun ==
    [platform |-> "linux", found |-> TRUE, cwdOk |-> TRUE, code |-> 0,
     out |-> "empty", err |-> "empty", res |-> Ran(FALSE, TRUE, NoCode, "empty", "empty")]

NoOp ==
    [impl |-> "none", op |-> "init", name |-> Ghost, ret |-> FALSE,
     raised |-> FALSE, calls |-> <<>>, pre |-> {}, o1 |-> "exit0",
     o2 |-> "exit0", outs |-> NoOuts, results |-> NoEntries,
     stopRet |-> FALSE, startTried |-> FALSE, mid |-> {},
     status |-> "-", out |-> NoOutput, reply |-> "not_found",
     run |-> NoRun, text |-> "-", follow |-> FALSE, blank |-> FALSE,
     cfg |-> "ok", action |-> "-", exit |-> 0, invoked |-> FALSE,
     interrupt |-> FALSE, polls |-> NoPolls,
     key |-> "-", writable |-> TRUE, before |-> NoSnapshot]

\* DockerManager.__init__ over a configuration file and a file system
ManagerInit ==
    /\ enabled \in [Services -> BOOLEAN]
    /\ kind \in [Services -> Kinds]
    /\ pathState \in [Services -> PathStates]
    /\ running_services = {}
    /\ cwd = Ghost
    /\ lastOp = NoOp

\* ServiceMonitor.__init__ and the entry of start_monitoring
MonitorStart ==
    /\ now = 0
    /\ alert_history = [s \in Services |-> NoTime]
    /\ lastTick = [s \in Services |-> NoTick]
    /\ issueAt = [s \in Services |-> NoTime]
    /\ sentAt = [s \in Services |-> NoTime]
    /\ notifiedAt = [s \in Services |-> NoTime]
    /\ lastIssues = [s \in Services |-> {}]
    /\ health_history = [s \in Services |-> <<>>]
    /\ observed = [s \in Services |-> 0]
    /\ monitoring = TRUE
    /\ polled = [s \in Services |-> NoStatus]

\* ConfigManager.__init__ and DockerManager.__init__ (core): nothing loaded
ConfigStart ==
    /\ heap = <<>>
    /\ cm_services = NoKeys
    /\ cm_config = NoConfig
    /\ dm_services = NoKeys
    /\ updates = 0

\* LogPanel.__init__ with the default of the class
PanelStart ==
    /\ log_lines = <<>>
    /\ lock = 0
    /\ pc = [t \in Threads |-> "idle"]
    /\ added = 0
    /\ cleared = 0

\* MenuSystem.__init__
MenuStart ==
    /\ menus = NoMenus
    /\ menu_stack = <<>>
    /\ current_menu = NoMenu
    /\ running = TRUE
    /\ frames = <<>>
    /\ last_choice = "none"

AppStart ==
    /\ ConfigStart
    /\ config_file = NoFile
    /\ PanelStart
    /\ max_lines = MaxLines
    /\ MenuStart

Init ==
    /\ ManagerInit
    /\ MonitorStart
    /\ notification = "object"
    /\ AppStart

\* the controllers are called synchronously from one thread: a call is made
\* only when the previous one has returned to the caller
Idle == lastOp.op = "init"

Done(impl, op, n, r, o) ==
    [NoOp EXCEPT !.impl = impl, !.op = op, !.name = n, !.ret = r.ret,
                 !.raised = r.raised, !.calls = r.calls,
                 !.pre = running_services, !.o1 = o]

DoneBulk(impl, op, r, outs) ==
    [NoOp EXCEPT !.impl = impl, !.op = op, !.raised = r.raised,
                 !.calls = r.calls, !.pre = running_services,
                 !.outs = outs, !.results = r.results]

LegacyStart ==
    /\ Idle
    /\ \E n \in Names, o \in Outcomes :
        LET r == LegacyStartService(running_services, n, o) IN
        /\ running_services' = r.running
        /\ cwd' = r.cwd
        /\ lastOp' = Done("legacy", "start", n, r, o)
        /\ UNCHANGED <<enabled, kind, pathState, monVars, appVars>>

LegacyStop ==
    /\ Idle
    /\ \E n \in Names, o \in Outcomes :
        LET r == LegacyStopService(running_services, n, o) IN
        /\ running_services' = r.running
        /\ cwd' = r.cwd
        /\ lastOp' = Done("legacy", "stop", n, r, o)
        /\ UNCHANGED <<enabled, kind, pathState, monVars, appVars>>

LegacyRestart ==
    /\ Idle
    /\ \E n \in Names, o1 \in Outcomes, o2 \in Outcomes :
        LET r == LegacyRestartService(running_services, n, o1, o2) IN
        /\ running_services' = r.running
        /\ cwd' = r.cwd
        /\ lastOp' = [Done("legacy", "restart", n, r, o1) EXCEPT
                         !.o2 = o2, !.stopRet = r.stopRet,
                         !.startTried = r.startTried, !.mid = r.mid]
        /\ UNCHANGED <<enabled, kind, pathState, monVars, appVars>>

LegacyStartAll ==
    /\ Idle
    /\ \E outs \in [Services -> Outcomes] :
        LET r == LegacyStartAllServices(running_services, outs) IN
        /\ running_services' = r.running
        /\ cwd' = r.cwd
        /\ lastOp' = DoneBulk("legacy", "start_all", r, outs)
        /\ UNCHANGED <<enabled, kind, pathState, monVars, appVars>>

LegacyStopAll ==
    /\ Idle
    /\ \E outs \in [Services -> Outcomes] :
        LET r == LegacyStopAllServices(running_services, outs) IN
        /\ running_services' = r.running
        /\ cwd' = r.cwd
        /\ lastOp' = DoneBulk("legacy", "stop_all", r, outs)
        /\ UNCHANGED <<enabled, kind, pathState, monVars, appVars>>

CoreStart ==
    /\ Idle
    /\ \E n \in Names, o \in Outcomes :
        /\ lastOp' = Done("core", "start", n, CoreStartService(n, o), o)
        /\ UNCHANGED <<mgrVars, monVars, appVars>>

CoreStop ==
    /\ Idle
    /\ \E n \in Names, o \in Outcomes :
        /\ lastOp' = Done("core", "stop", n, CoreStopService(n, o), o)
        /\ UNCHANGED <<mgrVars, monVars, appVars>>

CoreRestart ==
    /\ Idle
    /\ \E n \in Names, o1 \in Outcomes, o2 \in Outcomes :
        LET r == CoreRestartService(n, o1, o2) IN
        /\ lastOp' = [Done("core", "restart", n, r, o1) EXCEPT
                         !.o2 = o2, !.stopRet = r.stopRet,
                         !.startTried = r.startTried,
                         !.mid = running_services]
        /\ UNCHANGED <<mgrVars, monVars, appVars>>

CoreStartAll ==
    /\ Idle
    /\ \E outs \in [Services -> Outcomes] :
        /\ lastOp' = DoneBulk("core", "start_all", CoreStartAllServices(outs), outs)
        /\ UNCHANGED <<mgrVars, monVars, appVars>>

CoreStopAll ==
    /\ Idle
    /\ \E outs \in [Services -> Outcomes] :
        /\ lastOp' = DoneBulk("core", "stop_all", CoreStopAllServices(outs), outs)
        /\ UNCHANGED <<mgrVars, monVars, appVars>>

AssistantStartAll ==
    /\ Idle
    /\ \E o \in Outcomes :
        /\ lastOp' = [DoneBulk("assistant", "start_all",
                               AssistantStartAllServices(o), NoOuts)
                         EXCEPT !.o1 = o]
        /\ UNCHANGED <<mgrVars, monVars, appVars>>

\* the caller takes the result; the controller is ready for the next call
Return ==
    /\ ~Idle
    /\ lastOp' = NoOp
    /\ UNCHANGED <<mgrVars, monVars, appVars>>

Next ==
    \/ Return
    \/ LegacyStart
    \/ LegacyStop
    \/ LegacyRestart
    \/ LegacyStartAll
    \/ LegacyStopAll
    \/ CoreStart
    \/ CoreStop
    \/ CoreRestart
    \/ CoreStartAll
    \/ CoreStopAll
    \/ AssistantStartAll

vars == <<enabled, kind, pathState, running_services, cwd, lastOp,
          now, alert_history, lastTick, issueAt, sentAt, notifiedAt,
          lastIssues, health_history, observed, monitoring, polled,
          notification, config_file, heap, cm_services, cm_config,
          dm_services, updates, max_lines, log_lines, lock, pc, added,
          cleared, menus, menu_stack, current_menu, running, frames,
          last_choice>>

Spec == Init /\ [][Next]_vars

\* ---------------------------------------------- status polling on its own
DoneStatus(impl, n, r, o, out, d) ==
    [NoOp EXCEPT !.impl = impl, !.op = "status", !.name = n,
                 !.raised = r.raised, !.calls = r.calls, !.status = r.status,
                 !.o1 = o, !.out = out, !.reply = d]

IsDockerfile(n) == n \in Services /\ kind[n] = "dockerfile"

LegacyStatus ==
    /\ Idle
    /\ \E n \in Names :
         \E o \in (IF IsDockerfile(n) THEN {"exit0"} ELSE Outcomes),
            d \in (IF IsDockerfile(n) THEN DockerReplies ELSE {"not_found"}) :
         \E out \in (IF IsDockerfile(n) THEN {NoOutput} ELSE PsOutputsOn(n, o)) :
            /\ lastOp' = DoneStatus("legacy", n,
                                    LegacyGetServiceStatus(n, o, out, d), o, out, d)
            /\ cwd' = LegacyStatusCwd(n)
            /\ UNCHANGED <<enabled, kind, pathState, running_services, monVars, appVars>>

CoreStatus ==
    /\ Idle
    /\ \E n \in Names, o \in Outcomes :
         \E out \in PsOutputsOn(n, o) :
            /\ lastOp' = DoneStatus("core", n, CoreGetServiceStatus(n, o, out),
                                    o, out, "not_found")
            /\ UNCHANGED <<mgrVars, monVars, appVars>>

StatusInit ==
    /\ Init
    /\ enabled = [s \in Services |-> TRUE]

StatusNext ==
    \/ Return
    \/ LegacyStatus
    \/ CoreStatus

StatusSpec == StatusInit /\ [][StatusNext]_vars

\* ----------------------------------------------------- the menus in use
Top == frames[Len(frames)]

\* the user can be asked: the innermost invocation is at the head of its
\* loop and the loop goes on
Asking ==
    /\ frames # <<>>
    /\ Top.at = "loop"
    /\ LoopContinues(Top.menu)

\* the choice is the key of an item whose action displays no menu
MenuAction ==
    /\ Asking
    /\ \E k \in KeysOf(menus, Top.menu) :
        Selected(menus, Top.menu, k).opens = NoMenu
    /\ last_choice' = "action"
    /\ UNCHANGED <<mgrVars, monVars, cfgVars, panelVars, lastOp, menus,
                   menu_stack, current_menu, running, frames>>

\* the choice is the key of an item whose action displays a menu: the menu
\* is built when it is a temporary one, then display_menu is entered
MenuOpen ==
    /\ Asking
    /\ Len(frames) < MaxFrames
    /\ \E k \in KeysOf(menus, Top.menu) :
        LET it == Selected(menus, Top.menu, k)
            built == BuildMenu(menus, it.opens)
            e == Entered(built, menu_stack, current_menu, it.opens)
        IN  /\ it.opens # NoMenu
            /\ menus' = built
            /\ menu_stack' = e.stack
            /\ current_menu' = e.current
            /\ frames' = Append([frames EXCEPT ![Len(frames)].at = "in_action"],
                                Frame(it.opens, IF e.in THEN "loop" ELSE "done",
                                      IsTemp(it.opens)))
    /\ last_choice' = "submenu"
    /\ UNCHANGED <<mgrVars, monVars, cfgVars, panelVars, lastOp, running>>

\* the choice is no key of the menu and not 0
MenuInvalid ==
    /\ Asking
    /\ last_choice' = "invalid"
    /\ UNCHANGED <<mgrVars, monVars, cfgVars, panelVars, lastOp, menus,
                   menu_stack, current_menu, running, frames>>

\* choice 0 in a menu other than main: the stack is popped and
\* display_menu is called for the menu now on top (for main when the stack
\* is empty)
MenuBack ==
    /\ Asking
    /\ Top.menu # MainMenu
    /\ Len(frames) < MaxFrames
    /\ LET popped == SubSeq(menu_stack, 1, Len(menu_stack) - 1)
           prev == IF popped = <<>> THEN MainMenu ELSE popped[Len(popped)]
           e == Entered(menus, popped, NoMenu, prev)
       IN  /\ menu_stack' = e.stack
           /\ current_menu' = e.current
           /\ frames' = Append([frames EXCEPT ![Len(frames)].at = "in_back"],
                               Frame(prev, IF e.in THEN "loop" ELSE "done", FALSE))
    /\ last_choice' = "back"
    /\ UNCHANGED <<mgrVars, monVars, cfgVars, panelVars, lastOp, menus, running>>

\* choice 0 in the main menu
MenuExit ==
    /\ Asking
    /\ Top.menu = MainMenu
    /\ running' = FALSE
    /\ frames' = [frames EXCEPT ![Len(frames)].at = "done"]
    /\ last_choice' = "exit"
    /\ UNCHANGED <<mgrVars, monVars, cfgVars, panelVars, lastOp, menus,
                   menu_stack, current_menu>>

\* the innermost display_menu returns: its loop has ended; a temporary menu
\* is deleted by the method that built it; the caller goes on after its
\* call, with 'break' in the branch of choice 0 and with the next test of
\* the loop condition after an action
MenuReturn ==
    /\ frames # <<>>
    /\ \/ Top.at = "done"
       \/ Top.at = "loop" /\ ~LoopContinues(Top.menu)
    /\ LET rest == SubSeq(frames, 1, Len(frames) - 1) IN
       frames' = IF rest = <<>> THEN rest
                 ELSE [rest EXCEPT ![Len(rest)].at =
                          IF rest[Len(rest)].at = "in_back" THEN "done" ELSE "loop"]
    /\ menus' = IF Top.temp
                THEN [menus EXCEPT ![Top.menu] = [present |-> FALSE, items |-> <<>>]]
                ELSE menus
    /\ UNCHANGED <<mgrVars, monVars, cfgVars, panelVars, lastOp, menu_stack,
                   current_menu, running, last_choice>>

\* main of src/src/main.py in interactive mode: the four menus are created
\* and the main menu is displayed
MenuInit ==
    /\ ManagerInit
    /\ MonitorStart
    /\ notification = "object"
    /\ ConfigStart
    /\ config_file = NoFile
    /\ PanelStart
    /\ max_lines = MaxLines
    /\ menus = CreateMenus
    /\ menu_stack = <<MainMenu>>
    /\ current_menu = MainMenu
    /\ running = TRUE
    /\ frames = <<Frame(MainMenu, "loop", FALSE)>>
    /\ last_choice = "none"
    /\ enabled = [s \in Services |-> TRUE]
    /\ kind = [s \in Services |-> "docker-compose"]
    /\ pathState = [s \in Services |-> "dir_compose"]

MenuNext ==
    \/ MenuAction
    \/ MenuOpen
    \/ MenuInvalid
    \/ MenuBack
    \/ MenuExit
    \/ MenuReturn

MenuSpec == MenuInit /\ [][MenuNext]_vars

\* ------------------------------------------------- a log panel in use
\* a thread calls add_log, get_logs or clear; the entry is formatted before
\* the lock is asked for
PanelCall(t) ==
    /\ pc[t] = "idle"
    /\ \E op \in {"add", "get", "clear"} :
        /\ op = "add" => added + Cardinality({u \in Threads : pc[u] \in {"add", "add_locked"}}) < MaxAdds
        /\ pc' = [pc EXCEPT ![t] = op]
    /\ UNCHANGED <<mgrVars, monVars, cfgVars, menuVars, lastOp, max_lines, log_lines, lock,
                   added, cleared>>

\* 'with self.lock:' entered
PanelAcquire(t) ==
    /\ pc[t] \in {"add", "get", "clear"}
    /\ lock = 0
    /\ lock' = t
    /\ pc' = [pc EXCEPT ![t] = pc[t] \o "_locked"]
    /\ UNCHANGED <<mgrVars, monVars, cfgVars, menuVars, lastOp, max_lines, log_lines,
                   added, cleared>>

\* add_log: self.log_lines.append(log_entry)
PanelAppend(t) ==
    /\ pc[t] = "add_locked"
    /\ log_lines' = Append(log_lines, added + 1)
    /\ added' = added + 1
    /\ pc' = [pc EXCEPT ![t] = "appended"]
    /\ UNCHANGED <<mgrVars, monVars, cfgVars, menuVars, lastOp, max_lines, lock, cleared>>

\* add_log: the truncation, and the end of the 'with' block
PanelTruncate(t) ==
    /\ pc[t] = "appended"
    /\ log_lines' = Truncate(log_lines, max_lines)
    /\ lock' = 0
    /\ pc' = [pc EXCEPT ![t] = "idle"]
    /\ UNCHANGED <<mgrVars, monVars, cfgVars, menuVars, lastOp, max_lines, added, cleared>>

\* get_logs: the copy is taken and the lock released
PanelGetLogs(t) ==
    /\ pc[t] = "get_locked"
    /\ lock' = 0
    /\ pc' = [pc EXCEPT ![t] = "idle"]
    /\ UNCHANGED <<mgrVars, monVars, cfgVars, menuVars, lastOp, max_lines, log_lines,
                   added, cleared>>

\* clear: the list is emptied and the lock released
PanelClear(t) ==
    /\ pc[t] = "clear_locked"
    /\ log_lines' = <<>>
    /\ cleared' = added
    /\ lock' = 0
    /\ pc' = [pc EXCEPT ![t] = "idle"]
    /\ UNCHANGED <<mgrVars, monVars, cfgVars, menuVars, lastOp, max_lines, added>>

\* a panel built with any max_lines from 0 on
PanelInit ==
    /\ ManagerInit
    /\ MonitorStart
    /\ notification = "object"
    /\ ConfigStart
    /\ config_file = NoFile
    /\ PanelStart
    /\ MenuStart
    /\ max_lines \in 0..MaxLines
    /\ enabled = [s \in Services |-> TRUE]
    /\ kind = [s \in Services |-> "docker-compose"]
    /\ pathState = [s \in Services |-> "dir_compose"]

PanelNext ==
    \E t \in Threads :
        \/ PanelCall(t)
        \/ PanelAcquire(t)
        \/ PanelAppend(t)
        \/ PanelTruncate(t)
        \/ PanelGetLogs(t)
        \/ PanelClear(t)

PanelSpec == PanelInit /\ [][PanelNext]_vars

\* ---------------------------------------------- the configuration in use
Memory == Mem(heap, cm_services, cm_config, dm_services)

Remember(m) ==
    /\ heap' = m.heap
    /\ cm_services' = m.services
    /\ cm_config' = m.config
    /\ dm_services' = m.dm

\* ConfigManager.load_config
CmLoad ==
    /\ Idle
    /\ \E r \in {LoadConfig(config_file, Memory)} :
        /\ Remember(r.mem)
        /\ lastOp' = [NoOp EXCEPT !.impl = "config", !.op = "load",
                         !.ret = r.ret, !.before = Snapshot(Memory)]
    /\ UNCHANGED <<mgrVars, monVars, uiVars, config_file, updates>>

\* ConfigManager.save_config
CmSave ==
    /\ Idle
    /\ \E writable \in BOOLEAN :
        \E r \in {SaveConfig(config_file, Memory, writable)} :
        /\ config_file' = r.file
        /\ lastOp' = [NoOp EXCEPT !.impl = "config", !.op = "save",
                         !.ret = r.ret, !.writable = writable,
                         !.before = Snapshot(Memory)]
    /\ UNCHANGED <<mgrVars, monVars, uiVars, heap, cm_services, cm_config,
                   dm_services, updates>>

RoundTripInit ==
    /\ ManagerInit
    /\ MonitorStart
    /\ notification = "object"
    /\ MenuStart
    /\ PanelStart
    /\ max_lines = MaxLines
    /\ ConfigStart
    /\ config_file \in ConfigFileUniverse
    /\ enabled = [s \in Services |-> TRUE]
    /\ kind = [s \in Services |-> "docker-compose"]
    /\ pathState = [s \in Services |-> "dir_compose"]

RoundTripNext ==
    \/ Return
    \/ CmLoad
    \/ CmSave

RoundTripSpec == RoundTripInit /\ [][RoundTripNext]_vars

\* ServerAssistant.update_service_config
AssistantUpdate ==
    /\ Idle
    /\ updates < MaxUpdates
    /\ \E name \in Names, key \in UpdateKeys, writable \in BOOLEAN :
        \E b \in (IF key = "enabled" THEN BOOLEAN ELSE {FALSE}),
           n \in (IF key = "name" THEN Services ELSE {1}) :
        \E r \in {UpdateServiceConfig(config_file, Memory, name, key, b, n, writable)} :
        /\ Remember(r.mem)
        /\ config_file' = r.file
        /\ lastOp' = [NoOp EXCEPT !.impl = "assistant", !.op = "update",
                         !.name = name, !.key = key, !.ret = r.ret,
                         !.raised = r.raised, !.writable = writable,
                         !.before = Snapshot(Memory)]
    /\ updates' = updates + 1
    /\ UNCHANGED <<mgrVars, monVars, uiVars>>

\* ServerAssistant.__init__ over a file of a working installation
ConfigInit ==
    /\ ManagerInit
    /\ MonitorStart
    /\ notification = "object"
    /\ MenuStart
    /\ PanelStart
    /\ max_lines = MaxLines
    /\ config_file \in ValidFiles
    /\ \E m \in {LoadConfiguration(config_file, Mem(<<>>, NoKeys, NoConfig, NoKeys))} :
        /\ heap = m.heap
        /\ cm_services = m.services
        /\ cm_config = m.config
        /\ dm_services = m.dm
    /\ updates = 0
    /\ enabled = [s \in Services |-> TRUE]
    /\ kind = [s \in Services |-> "docker-compose"]
    /\ pathState = [s \in Services |-> "dir_compose"]

ConfigNext ==
    \/ Return
    \/ AssistantUpdate

ConfigSpec == ConfigInit /\ [][ConfigNext]_vars

\* ------------------------------------------------ one run of the program
\* an input is drawn only for the actions that use it
CliMain ==
    /\ Idle
    /\ \E cfg \in ConfigFiles, action \in Actions, interrupt \in BOOLEAN :
         \E n \in (IF action \in SingleTarget \cup {"logs"} THEN Names ELSE {Ghost}),
            o1 \in (IF action \in {"status", "stop-all", "logs"} THEN {"exit0"} ELSE Outcomes),
            o2 \in (IF action = "restart" THEN Outcomes ELSE {"exit0"}),
            outs \in (IF action = "stop-all" THEN [Services -> Outcomes] ELSE {NoOuts}) :
         \E polls \in (IF action = "status"
                        THEN {p \in [Services -> UNION {CliPolls(s) : s \in Services}] :
                                 \A s \in Services : p[s] \in CliPolls(s)}
                        ELSE IF action = "logs" /\ n \in Services
                        THEN {[NoPolls EXCEPT ![n] = q] : q \in CliPolls(n)}
                        ELSE {NoPolls}) :
            LET r == Main(cfg, action, n, o1, o2, outs, polls, interrupt) IN
            lastOp' = [NoOp EXCEPT !.impl = "core", !.op = "cli", !.name = n,
                          !.cfg = cfg, !.action = action, !.exit = r.exit,
                          !.invoked = r.invoked, !.ret = r.ret,
                          !.raised = r.raised, !.interrupt = interrupt,
                          !.o1 = o1, !.o2 = o2, !.outs = outs, !.polls = polls]
    /\ UNCHANGED <<mgrVars, monVars, appVars>>

MonitorCli ==
    /\ Idle
    /\ \E cfg \in LegacyConfigFiles, interrupt \in BOOLEAN :
         LET r == MonitorMain(cfg, interrupt) IN
         lastOp' = [NoOp EXCEPT !.impl = "legacy", !.op = "cli",
                       !.cfg = cfg, !.action = "summary", !.exit = r.exit,
                       !.invoked = r.invoked, !.interrupt = interrupt]
    /\ UNCHANGED <<mgrVars, monVars, appVars>>

CliInit ==
    /\ StatusInit
    /\ kind = [s \in Services |-> "docker-compose"]

CliNext ==
    \/ Return
    \/ CliMain
    \/ MonitorCli

CliSpec == CliInit /\ [][CliNext]_vars

\* --------------------------------------------------- the logs on their own
\* the outcome and the output of the logs command are inputs only when the
\* command is run
CoreLogs ==
    /\ Idle
    /\ \E n \in Names, follow \in BOOLEAN, o \in Outcomes :
         \E out \in PsOutputsOn(n, o) :
         \E o2 \in (IF AsksForLogs(n, o, out) THEN Outcomes ELSE {"exit0"}),
            blank \in (IF AsksForLogs(n, o, out) THEN BOOLEAN ELSE {FALSE}) :
            LET r == CoreGetServiceLogs(n, follow, o, out, o2, blank) IN
            lastOp' = [NoOp EXCEPT !.impl = "core", !.op = "logs", !.name = n,
                          !.raised = r.raised, !.calls = r.calls,
                          !.status = r.status, !.text = r.text, !.o1 = o,
                          !.o2 = o2, !.out = out, !.follow = follow,
                          !.blank = blank]
    /\ UNCHANGED <<mgrVars, monVars, appVars>>

LogsInit ==
    /\ StatusInit
    /\ kind = [s \in Services |-> "docker-compose"]

LogsNext ==
    \/ Return
    \/ CoreLogs

LogsSpec == LogsInit /\ [][LogsNext]_vars

\* ------------------------------------------------ the runners on their own
RunACommand ==
    /\ Idle
    /\ \E impl \in Runners, pf \in Platforms, found \in BOOLEAN, cwdOk \in BOOLEAN,
          code \in ExitCodes, out \in Texts, err \in Texts :
         lastOp' = [NoOp EXCEPT !.impl = impl, !.op = "run",
                       !.run = [platform |-> pf, found |-> found, cwdOk |-> cwdOk,
                                code |-> code, out |-> out, err |-> err,
                                res |-> RunCommand(impl, pf, found, cwdOk, code, out, err)]]
    /\ UNCHANGED <<mgrVars, monVars, appVars>>

RunnerInit ==
    /\ Init
    /\ enabled = [s \in Services |-> TRUE]
    /\ kind = [s \in Services |-> "docker-compose"]
    /\ pathState = [s \in Services |-> "dir_compose"]

RunnerNext ==
    \/ Return
    \/ RunACommand

RunnerSpec == RunnerInit /\ [][RunnerNext]_vars

\* ------------------------- the compose operations of the legacy controller
CwdInit ==
    /\ StatusInit
    /\ kind = [s \in Services |-> "docker-compose"]

CwdNext ==
    \/ Return
    \/ LegacyStart
    \/ LegacyStop
    \/ LegacyStatus

CwdSpec == CwdInit /\ [][CwdNext]_vars

\* ------------------------------------------------------- the monitor loop
TickSteps == {7, 15, 16}               \* minutes the loop sleeps between two checks

\* no health check has run since the loop last slept
Slept == \A s \in Services : lastTick[s] = NoTick

\* the effects of one run of check_all_services whose per-service results
\* are r; an exception ends the loop (start_monitoring, lines 48-55)
Checked(r, poll) ==
    /\ polled' = [s \in Services |->
          IF r[s].tick = NoTick THEN NoStatus ELSE poll[s]]
    /\ alert_history' = [s \in Services |-> r[s].alert]
    /\ lastTick' = [s \in Services |-> r[s].tick]
    /\ health_history' = [s \in Services |-> r[s].hist]
    /\ observed' = [s \in Services |-> r[s].seen]
    /\ issueAt' = [s \in Services |->
          CASE r[s].tick.kind = "issues"  -> now
            [] r[s].tick.kind = "healthy" -> NoTime
            [] OTHER -> issueAt[s]]
    /\ sentAt' = [s \in Services |->
          CASE r[s].tick.kind = "issues" /\ r[s].tick.sent /\ ~r[s].tick.raised -> now
            [] r[s].tick.kind = "healthy" -> NoTime
            [] OTHER -> sentAt[s]]
    /\ notifiedAt' = [s \in Services |->
          IF r[s].tick.kind = "issues" /\ r[s].tick.sent /\ ~r[s].tick.raised
          THEN now ELSE notifiedAt[s]]
    /\ lastIssues' = [s \in Services |->
          CASE r[s].tick.kind = "issues"  -> r[s].tick.issues
            [] r[s].tick.kind = "healthy" -> {}
            [] OTHER -> lastIssues[s]]
    /\ monitoring' = \A s \in Services : ~r[s].tick.raised

\* ServiceMonitor.check_all_services, once per wake-up
CheckAllServices ==
    /\ monitoring
    /\ Slept
    /\ \E e \in Services : enabled[e]
    /\ \E poll \in [Services -> PollSamples] :
         \E r \in {CheckAll(poll)} : Checked(r, poll)
    /\ UNCHANGED <<mgrVars, appVars, lastOp, now, notification>>

\* start_monitoring: the loop sleeps until the next check is due
Sleep ==
    /\ monitoring
    /\ ~Slept
    /\ \E dt \in TickSteps :
        /\ now + dt <= MaxTime
        /\ now' = now + dt
    /\ lastTick' = [s \in Services |-> NoTick]
    /\ polled' = [s \in Services |-> NoStatus]
    /\ UNCHANGED <<mgrVars, appVars, lastOp, alert_history, issueAt, sentAt, notifiedAt,
                   lastIssues, health_history, observed, monitoring,
                   notification>>

MonitorInit ==
    /\ ManagerInit
    /\ MonitorStart
    /\ AppStart
    /\ notification \in NotificationConfigs
    /\ kind = [s \in Services |-> "docker-compose"]
    /\ pathState = [s \in Services |-> "dir_compose"]

MonitorNext ==
    \/ CheckAllServices
    \/ Sleep

MonitorSpec == MonitorInit /\ [][MonitorNext]_vars

\* --------------------------------------------- the monitor over a long run
MaxPolls == 103                     \* checks explored in the long run

\* the polls of one check in the long run: the docker daemon answers for
\* every service (all healthy) or for none
SteadyPolls ==
    { [s \in Services |-> Polled("running", "healthy", MemPct(50), 50, "none")],
      [s \in Services |-> NoStatus] }

\* check_all_services in the long run
CheckAllSteady ==
    /\ monitoring
    /\ Slept
    /\ \E e \in Services : enabled[e]
    /\ \E poll \in SteadyPolls :
         \E r \in {CheckAll(poll)} : Checked(r, poll)
    /\ UNCHANGED <<mgrVars, appVars, lastOp, now, notification>>

\* start_monitoring with the default interval of 60 seconds
SleepInterval ==
    /\ monitoring
    /\ ~Slept
    /\ now + 1 < MaxPolls
    /\ now' = now + 1
    /\ lastTick' = [s \in Services |-> NoTick]
    /\ polled' = [s \in Services |-> NoStatus]
    /\ UNCHANGED <<mgrVars, appVars, lastOp, alert_history, issueAt, sentAt, notifiedAt,
                   lastIssues, health_history, observed, monitoring,
                   notification>>

\* ------------------------------------------- the health check on its own
\* check_all_services with one service polled over the whole universe of
\* statuses and the others found running and healthy
WidePolls ==
    {[s \in Services |->
         IF s = w THEN p ELSE Polled("running", "healthy", MemPct(0), 0, "none")] :
       w \in Services, p \in PollUniverse}

CheckAllWide ==
    /\ monitoring
    /\ Slept
    /\ \E poll \in WidePolls :
         \E r \in {CheckAll(poll)} : Checked(r, poll)
    /\ UNCHANGED <<mgrVars, appVars, lastOp, now, notification>>

IssueInit ==
    /\ Init
    /\ enabled = [s \in Services |-> TRUE]
    /\ kind = [s \in Services |-> "docker-compose"]
    /\ pathState = [s \in Services |-> "dir_compose"]

IssueNext ==
    \/ CheckAllWide
    \/ Sleep

IssueSpec == IssueInit /\ [][IssueNext]_vars

HistoryInit ==
    /\ Init
    /\ kind = [s \in Services |-> "docker-compose"]
    /\ pathState = [s \in Services |-> "dir_compose"]

HistoryNext ==
    \/ CheckAllSteady
    \/ SleepInterval

HistorySpec == HistoryInit /\ [][HistoryNext]_vars

\* ------------------------------------------------------------ properties
StartCmds == {"up", "docker_build", "docker_run"}
StopCmds == {"down", "docker_stop", "docker_remove"}

\* the services the call invoked an external command for
Touched(calls) == {calls[i].svc : i \in DOMAIN calls}
CmdsOf(calls) == {calls[i].cmd : i \in DOMAIN calls}

\* what a single stop / start of n returns under controller impl
StopOf(impl, run, n, o) ==
    IF impl = "legacy" THEN LegacyStopService(run, n, o) ELSE CoreStopService(n, o)
StartOf(impl, run, n, o) ==
    IF impl = "legacy" THEN LegacyStartService(run, n, o) ELSE CoreStartService(n, o)

\* C1: start_service returns False, without raising and without invoking
\* the command runner, for an unknown name, a disabled service or a missing
\* working directory; it returns False when the command exits non-zero and
\* True when the service is enabled, the directory exists and the command
\* exits 0.
C1_StartContract ==
    lastOp.op = "start" =>
        LET n == lastOp.name IN
        /\ (n \notin Services \/ ~enabled[n] \/ pathState[n] = "missing")
              => (~lastOp.raised /\ ~lastOp.ret /\ lastOp.calls = <<>>)
        /\ (lastOp.calls # <<>> /\ lastOp.o1 = "nonzero")
              => (~lastOp.raised /\ ~lastOp.ret)
        /\ (lastOp.calls # <<>> /\ lastOp.o1 = "exit0" /\ enabled[n]
                /\ pathState[n] # "missing")
              => lastOp.ret

\* C2: start_all_services never invokes the command runner for a service
\* with enabled=false, and the returned map has an entry False for it.
C2_DisabledSkippedWithFalseEntry ==
    lastOp.op = "start_all" =>
        \A s \in Services :
            ~enabled[s] =>
                /\ s \notin Touched(lastOp.calls)
                /\ ~lastOp.raised
                /\ lastOp.results[s] = "False"

\* C3: stop_all_services attempts a stop for every configured service
\* whatever happened to the earlier ones, always completes, returns one entry
\* per service equal to that service's own stop result, and a later failure
\* does not undo an earlier stop.
C3_StopAllBestEffort ==
    lastOp.op = "stop_all" =>
        /\ ~lastOp.raised
        /\ \A s \in Services :
              /\ lastOp.results[s] =
                    Entry(StopOf(lastOp.impl, lastOp.pre, s, lastOp.outs[s]).ret)
              /\ (lastOp.impl = "legacy" /\ lastOp.results[s] = "True")
                    => s \notin running_services

\* C4: restart_service stops strictly before it starts; when the stop step
\* returns False the restart returns False and start is never attempted; when
\* the stop succeeds the restart returns what the start returns.
C4_RestartStopThenStart ==
    lastOp.op = "restart" =>
        LET n  == lastOp.name
            st == StopOf(lastOp.impl, lastOp.pre, n, lastOp.o1)
            sa == StartOf(lastOp.impl, st.running, n, lastOp.o2)
            c  == lastOp.calls
        IN
        /\ \A i, j \in DOMAIN c :
              (c[i].cmd \in StopCmds /\ c[j].cmd \in StartCmds) => i < j
        /\ (~st.ret /\ ~st.raised)
              => (~lastOp.ret /\ ~lastOp.raised /\ c = st.calls
                  /\ CmdsOf(c) \cap StartCmds = {})
        /\ st.ret
              => (lastOp.ret = sa.ret /\ lastOp.raised = sa.raised
                  /\ c = st.calls \o sa.calls)

\* C4 witness: a restart whose compose down exits non-zero, for a service
\* that a start would have brought up
C4_Witness ==
    /\ lastOp.op = "restart"
    /\ lastOp.name \in Services
    /\ lastOp.calls = <<Call("down", lastOp.name)>>
    /\ lastOp.o1 = "nonzero"
    /\ lastOp.o2 = "exit0"
    /\ enabled[lastOp.name]
    /\ pathState[lastOp.name] = "dir_compose"
    /\ ~lastOp.ret

\* C5: stop_service never raises and its boolean depends on the service's
\* configuration and the runtime's response only, not on the operations that
\* came before (here: it is what the same call returns on a fresh controller).
C5_StopDeterministic ==
    lastOp.op = "stop" =>
        /\ ~lastOp.raised
        /\ lastOp.ret = StopOf(lastOp.impl, {}, lastOp.name, lastOp.o1).ret

\* compose-kind: every core service, and the legacy services of that type
ComposeKind(impl, n) == impl = "core" \/ kind[n] = "docker-compose"

\* C6 (as stated): an untracked dockerfile service stops with True and no
\* runtime invocation; a compose service always has 'compose down' invoked.
C6_StopPerKindAlwaysDown ==
    (lastOp.op = "stop" /\ lastOp.name \in Services) =>
        LET n == lastOp.name IN
        /\ (lastOp.impl = "legacy" /\ kind[n] = "dockerfile" /\ n \notin lastOp.pre)
              => (lastOp.ret /\ lastOp.calls = <<>>)
        /\ ComposeKind(lastOp.impl, n) => "down" \in CmdsOf(lastOp.calls)

\* C6 (amended): an untracked dockerfile service stops with True and no
\* runtime invocation; a compose service whose working directory exists has
\* 'compose down' invoked exactly once, tracked or not; when the directory
\* is missing the stop returns False and 'compose down' is not invoked.
C6_StopPerKind ==
    (lastOp.op = "stop" /\ lastOp.name \in Services) =>
        LET n == lastOp.name IN
        /\ (lastOp.impl = "legacy" /\ kind[n] = "dockerfile" /\ n \notin lastOp.pre)
              => (lastOp.ret /\ lastOp.calls = <<>>)
        /\ (ComposeKind(lastOp.impl, n) /\ pathState[n] # "missing")
              => lastOp.calls = <<Call("down", n)>>
        /\ (ComposeKind(lastOp.impl, n) /\ pathState[n] = "missing")
              => (~lastOp.ret /\ ~lastOp.raised /\ lastOp.calls = <<>>)

\* C6 witness: compose down run for a compose service that is not tracked
C6_Witness ==
    /\ lastOp.op = "stop"
    /\ lastOp.impl = "legacy"
    /\ lastOp.name \in Services
    /\ kind[lastOp.name] = "docker-compose"
    /\ lastOp.name \notin lastOp.pre
    /\ lastOp.calls = <<Call("down", lastOp.name)>>
    /\ lastOp.ret

\* C7 (as stated): get_service_status of a name that is not in the registry
\* does not raise and returns a status object whose state is not_found.
C7_UnknownNameIsNotFound ==
    (lastOp.op = "status" /\ lastOp.name \notin Services) =>
        (~lastOp.raised /\ lastOp.status = "not_found")

\* C7 (amended): get_service_status of a name that is not in the registry
\* does not raise, invokes nothing and returns no status object (None).
C7_UnknownNameIsNone ==
    (lastOp.op = "status" /\ lastOp.name \notin Services) =>
        (~lastOp.raised /\ lastOp.status = "None" /\ lastOp.calls = <<>>)

\* C7 witness: a status query for the unregistered name has returned
C7_Witness ==
    /\ lastOp.op = "status"
    /\ lastOp.impl = "legacy"
    /\ lastOp.name = Ghost
    /\ lastOp.status = "None"

\* the 'compose ps' command ran and exited 0 for the service queried
PsSucceeded ==
    /\ lastOp.op = "status"
    /\ lastOp.name \in Services
    /\ lastOp.calls = <<Call("ps", lastOp.name)>>
    /\ lastOp.o1 = "exit0"

\* stdout that is not a JSON list of objects (nor a single object)
Unparseable(out) ==
    \/ out.shape \in {"garbage", "lines", "number", "null", "string"}
    \/ (out.shape = "list" /\ \E i \in DOMAIN out.items : ~out.items[i].isObj)

\* C8: get_service_status never raises; when the output of 'compose ps
\* --format json' cannot be parsed into the expected shape the status
\* returned has state unknown.
C8_ParseFailureIsUnknown ==
    (PsSucceeded /\ Unparseable(lastOp.out)) =>
        (~lastOp.raised /\ lastOp.status = "unknown")

\* the listing has no entry for service n
NoEntryFor(out, n) ==
    /\ out.shape \in {"list", "object"}
    /\ out.items # <<>>
    /\ \A i \in DOMAIN out.items : out.items[i].isObj /\ out.items[i].svc # n

EmptyList(out) == out.shape = "list" /\ out.items = <<>>

\* the runtime reports no container for the service queried
ReportsNoContainer ==
    \/ (PsSucceeded /\ (lastOp.out.shape = "blank" \/ EmptyList(lastOp.out)
                        \/ NoEntryFor(lastOp.out, lastOp.name)))
    \/ (lastOp.op = "status" /\ lastOp.calls = <<Call("docker_get", lastOp.name)>>
        /\ lastOp.reply = "not_found")

\* C9 (as stated): when the runtime reports no container for a configured
\* service, the status returned has state not_found.
C9_AbsentIsNotFound ==
    ReportsNoContainer => (~lastOp.raised /\ lastOp.status = "not_found")

\* C9 (amended): not_found is returned when container inspect reports not
\* found (dockerfile kind); for compose services the core controller returns
\* stopped on empty output and unknown on an empty list or when no entry
\* matches, the legacy controller returns not_running on an empty list, no
\* status on empty output and the first entry's state when none matches.
C9_AbsentStatus ==
    ReportsNoContainer =>
        LET out == lastOp.out IN
        /\ ~lastOp.raised
        /\ lastOp.calls = <<Call("docker_get", lastOp.name)>>
              => lastOp.status = "not_found"
        /\ (lastOp.impl = "core" /\ out.shape = "blank") => lastOp.status = "stopped"
        /\ (lastOp.impl = "core" /\ (EmptyList(out) \/ NoEntryFor(out, lastOp.name)))
              => lastOp.status = "unknown"
        /\ (PsSucceeded /\ lastOp.impl = "legacy" /\ EmptyList(out))
              => lastOp.status = "not_running"
        /\ (PsSucceeded /\ lastOp.impl = "legacy" /\ out.shape = "blank")
              => lastOp.status = "None"
        /\ (PsSucceeded /\ lastOp.impl = "legacy" /\ out.shape = "list"
                /\ NoEntryFor(out, lastOp.name))
              => lastOp.status = StateOf(out.items[1])

\* C9 witness: 'compose ps' printed nothing and the core controller has
\* answered stopped
C9_Witness ==
    /\ PsSucceeded
    /\ lastOp.impl = "core"
    /\ lastOp.out.shape = "blank"
    /\ lastOp.status = "stopped"

\* C10: of two ticks with issues for one service that are at most 15
\* minutes apart, with no issue-free tick between them, the first (the one
\* with no notification in the 15 minutes before it) sends the one
\* notification and the second sends none; a tick with issues more than 15
\* minutes after the last notification sent sends one again.
C10_OneAlertPerWindow ==
    \A s \in Services :
        lastTick[s].kind = "issues" =>
            LET t == lastTick[s] IN
            /\ t.prevSentAt = NoTime => t.sent
            /\ (t.prevSentAt # NoTime /\ now - t.prevSentAt <= AlertWindow)
                  => ~t.sent
            /\ (t.prevSentAt # NoTime /\ now - t.prevSentAt > AlertWindow)
                  => t.sent

\* C10 witness: the second of two ticks with issues, within 15 minutes of
\* the first, which sent the notification; the second sends none
C10_Witness ==
    \E s \in Services :
        /\ lastTick[s].kind = "issues"
        /\ lastTick[s].prevSentAt # NoTime
        /\ lastTick[s].prevIssueAt = lastTick[s].prevSentAt
        /\ now - lastTick[s].prevSentAt <= AlertWindow
        /\ ~lastTick[s].sent

\* the time of the last notification sent for service x, as it was before
\* the check just run
SentBefore(x) ==
    IF lastTick[x].kind = "skipped" THEN sentAt[x] ELSE lastTick[x].prevSentAt

\* C11: a tick that finds no issues for a service removes the service's
\* alert-suppression entry, and the next tick with issues after it sends a
\* notification at once, however recent the notification sent before.
C11_HealthyTickClearsEntry ==
    \A s \in Services :
        /\ lastTick[s].kind = "healthy" => alert_history[s] = NoTime
        /\ (lastTick[s].kind = "issues" /\ lastTick[s].prevSentAt = NoTime)
              => lastTick[s].sent

\* C11 witness: a tick with issues that notifies less than 15 minutes
\* after the notification sent before, an issue-free tick lying between
C11_Witness ==
    \E s \in Services :
        /\ lastTick[s].kind = "issues"
        /\ lastTick[s].sent
        /\ lastTick[s].prevSentAt = NoTime
        /\ lastTick[s].prevNotifiedAt # NoTime
        /\ now - lastTick[s].prevNotifiedAt < AlertWindow

\* C12: whether an issue notification is suppressed depends on the service
\* and the time of the last notification sent for it only: two services
\* with the same last notification time get the same decision, a different
\* issue inside the window is suppressed, and a service with no
\* notification of its own is never suppressed by the entry of another.
C12_SuppressionKeyedByService ==
    \A s \in Services :
        lastTick[s].kind = "issues" =>
            LET t == lastTick[s] IN
            /\ \A x \in Services :
                  (lastTick[x].kind = "issues" /\ lastTick[x].prevSentAt = t.prevSentAt)
                      => lastTick[x].sent = t.sent
            /\ (/\ t.prevSentAt # NoTime
                /\ now - t.prevSentAt <= AlertWindow
                /\ t.issues # t.prevIssues) => ~t.sent
            /\ (/\ t.prevSentAt = NoTime
                /\ \E x \in Services \ {s} :
                      SentBefore(x) # NoTime /\ now - SentBefore(x) <= AlertWindow)
                  => t.sent

\* C12 witness: in one tick a service is suppressed for an issue that
\* differs from the one notified, and another service, with no notification
\* of its own, is notified
C12_Witness ==
    \E s \in Services, x \in Services :
        /\ s # x
        /\ lastTick[s].kind = "issues"
        /\ lastTick[s].issues # lastTick[s].prevIssues
        /\ lastTick[s].prevSentAt # NoTime
        /\ ~lastTick[s].sent
        /\ lastTick[x].kind = "issues"
        /\ lastTick[x].prevSentAt = NoTime
        /\ lastTick[x].sent

\* C13: a tick in which the status of an enabled service cannot be obtained
\* sends a notification, whatever the alert-suppression entry and however
\* recent the last notification, and leaves the entry as it was.
C13_UnavailableAlwaysNotifies ==
    \A s \in Services :
        lastTick[s].kind = "unavailable" =>
            /\ enabled[s]
            /\ lastTick[s].sent
            /\ sentAt[s] = lastTick[s].prevSentAt

\* C13 witness: an unavailable tick within 15 minutes of an issue
\* notification for the same service, which notifies
C13_Witness ==
    \E s \in Services :
        /\ lastTick[s].kind = "unavailable"
        /\ lastTick[s].prevSentAt # NoTime
        /\ now - lastTick[s].prevSentAt <= AlertWindow
        /\ lastTick[s].sent

\* C14: the health history of a service never holds more than 100 records;
\* it holds the most recent observations in the order they were made, all
\* of them up to 100 and exactly the last 100 after that.
C14_HistoryCapped ==
    \A s \in Services :
        LET h == health_history[s] IN
        /\ Len(h) <= HistoryCap
        /\ Len(h) = (IF observed[s] > HistoryCap THEN HistoryCap ELSE observed[s])
        /\ \A i \in 1..Len(h) : h[i] = observed[s] - Len(h) + i

\* C14 witness: more than 100 statuses were obtained for a service and the
\* oldest records are gone
C14_Witness ==
    \E s \in Services :
        /\ observed[s] > HistoryCap
        /\ Len(health_history[s]) = HistoryCap
        /\ health_history[s][1] = observed[s] - HistoryCap + 1

\* C15: a failure while polling, evaluating or notifying one service never
\* ends the monitor loop and never keeps the other enabled services from
\* being checked in the same tick.
C15_TickNeverAborts ==
    /\ monitoring
    /\ ~Slept => \A s \in Services : enabled[s] => lastTick[s].kind # "skipped"

\* C16: after a compose-style start, stop or status returns, on every way
\* out (success, non-zero exit, missing directory, exception), the working
\* directory of the process is what it was before the call.
C16_CwdRestored ==
    (lastOp.impl = "legacy" /\ lastOp.op \in {"start", "stop", "status"})
        => cwd = Ghost

\* C16 witness: a compose status whose command raised after the change of
\* directory, the process being back in the original directory
C16_Witness ==
    /\ lastOp.impl = "legacy"
    /\ lastOp.op = "status"
    /\ lastOp.name \in Services
    /\ lastOp.calls # <<>>
    /\ lastOp.o1 = "raise"
    /\ cwd = Ghost

\* what a caller of runner impl on platform pf can get when the command
\* ran and exited non-zero
CommandFailures(impl, pf) ==
    { RunCommand(impl, pf, TRUE, TRUE, c, out, err) :
          c \in ExitCodes \ {0}, out \in Texts, err \in Texts }

\* C17: a command runner never raises for a command that exits non-zero,
\* it returns success = false with the captured stdout and stderr; a
\* runner-level failure (the command could not be executed at all) gives
\* the caller something no command-level failure gives.
C17_RunnerContract ==
    lastOp.op = "run" =>
        LET i == lastOp.run IN
        /\ (i.found /\ i.cwdOk /\ i.code # 0)
              => /\ ~i.res.raised
                 /\ ~i.res.success
                 /\ i.res.stdout = i.out
                 /\ i.res.stderr = i.err
        /\ (~i.found \/ ~i.cwdOk)
              => i.res \notin CommandFailures(lastOp.impl, i.platform)

\* the strings get_service_logs returns without asking for the logs
Placeholders == {"not_configured", "no_path", "not_running"}

\* the status get_service_status gives for the inputs of the last call
\* ("raised" when it raises)
StatusThen ==
    LET st == CoreGetServiceStatus(lastOp.name, lastOp.o1, lastOp.out) IN
    IF st.raised THEN "raised" ELSE st.status

\* C18: get_service_logs runs the logs command only when the status of the
\* service is running or up; for any other status, or no status, it
\* returns a placeholder string and does not run the logs command.
C18_LogsOnlyWhenRunning ==
    lastOp.op = "logs" =>
        /\ ({"logs", "logs_f"} \cap CmdsOf(lastOp.calls) # {})
              => StatusThen \in LogStatuses
        /\ (~lastOp.raised /\ StatusThen \notin LogStatuses)
              => /\ lastOp.text \in Placeholders
                 /\ {"logs", "logs_f"} \cap CmdsOf(lastOp.calls) = {}

\* C18 witness: the logs of a running service were asked for and returned
C18_Witness ==
    /\ lastOp.op = "logs"
    /\ StatusThen = "running"
    /\ LogsCmd(lastOp.follow) \in CmdsOf(lastOp.calls)
    /\ lastOp.text = "logs"

\* C19: a missing or invalid configuration file is fatal: the process exits
\* with a failure before any lifecycle operation is called.
C19_BadConfigIsFatal ==
    (lastOp.op = "cli" /\ lastOp.cfg # "ok")
        => (lastOp.exit = 1 /\ ~lastOp.invoked)

\* C20: for start, stop and restart of one service the exit code is 0 when
\* the operation succeeds and 1 when it fails or the user interrupts; for
\* start-all and stop-all the failures of single services leave the exit
\* code at 0.
C20_ExitCodes ==
    (lastOp.op = "cli" /\ lastOp.impl = "core") =>
        /\ lastOp.action \in SingleTarget
              => (lastOp.exit = 0 <=>
                    (lastOp.ret /\ ~lastOp.raised /\ ~lastOp.interrupt))
        /\ (lastOp.action \in BulkActions /\ ~lastOp.raised /\ ~lastOp.interrupt)
              => lastOp.exit = 0

\* C25: the tracked-running set follows successful operations only: after a
\* successful start of a service its name is in running_services, after a
\* successful stop it is not, no other name is touched, and a start or stop
\* that returns False leaves running_services as it was.
C25_TrackedFollowsSuccess ==
    (lastOp.impl = "legacy" /\ lastOp.op \in {"start", "stop"}) =>
        /\ (lastOp.op = "start" /\ lastOp.ret)
              => running_services = lastOp.pre \cup {lastOp.name}
        /\ (lastOp.op = "stop" /\ lastOp.ret)
              => running_services = lastOp.pre \ {lastOp.name}
        /\ ~lastOp.ret => running_services = lastOp.pre

\* C25 witness: a stop of a tracked service has failed and the service is
\* still tracked, while another service was started before
C25_Witness ==
    /\ lastOp.impl = "legacy"
    /\ lastOp.op = "stop"
    /\ ~lastOp.ret
    /\ lastOp.name \in running_services
    /\ running_services # {lastOp.name}

\* C24: a check handed a status finds the service to have issues exactly when
\* the state is not running, the health is unhealthy, the memory percentage
\* is present, parseable and above 90, the CPU percentage is above 90, or the
\* custom probe fails or times out; each of these is reported whatever the
\* others are, and a usage of exactly 90 is no issue.
C24_IssuePredicates ==
    \A s \in Services :
        lastTick[s].kind \in {"issues", "healthy"} =>
            LET p == polled[s]
                notRunning == p.status # "running"
                unhealthy == p.health = "unhealthy"
                memory == p.mem.tag = "pct" /\ p.mem.pct > 90
                cpu == p.cpu # NoCpu /\ p.cpu > 90
                probe == p.probe \in {"fail", "timeout"}
                found == IF lastTick[s].kind = "issues"
                         THEN lastTick[s].issues ELSE {}
            IN  /\ lastTick[s].kind = "issues"
                     <=> (notRunning \/ unhealthy \/ memory \/ cpu \/ probe)
                /\ "not_running" \in found <=> notRunning
                /\ "unhealthy" \in found <=> unhealthy
                /\ "memory" \in found <=> memory
                /\ "cpu" \in found <=> cpu
                /\ "probe" \in found <=> probe

\* C24 witness: a service with memory and CPU at exactly 90 was found healthy
C24_Witness ==
    \E s \in Services :
        /\ lastTick[s].kind = "healthy"
        /\ polled[s].mem = MemPct(90)
        /\ polled[s].cpu = 90
        /\ polled[s].probe = "pass"

\* C21: a configuration that was loaded, saved and loaded again gives the
\* descriptors it gave the first time, field by field, and the same names.
C21_RoundTrip ==
    (lastOp.op = "load" /\ lastOp.ret /\ config_file.saved) =>
        /\ Snapshot(Memory).descriptors = lastOp.before.descriptors
        /\ Snapshot(Memory).registered = lastOp.before.registered

\* C21 witness: a file whose entries give a port, leave one out and name one
\* service twice was loaded, saved and loaded again
C21_Witness ==
    /\ lastOp.op = "load"
    /\ lastOp.ret
    /\ config_file.saved
    /\ Len(heap) >= 2
    /\ \E i \in DOMAIN heap : heap[i].port = "80"
    /\ \E i \in DOMAIN heap : heap[i].port = PyNone /\ ~heap[i].enabled
    /\ \E i, j \in DOMAIN heap : i # j /\ heap[i].name = heap[j].name

\* C22: the name of a descriptor never changes: every key of the registry is
\* the name of the descriptor stored under it, whatever was updated.
C22_NameImmutable ==
    /\ \A s \in Services : cm_services[s] # 0 => heap[cm_services[s]].name = s
    /\ lastOp.op = "update" =>
          \A k \in DOMAIN lastOp.before.descriptors :
              Snapshot(Memory).descriptors[k].name = lastOp.before.descriptors[k].name

\* C22 witness: after an update that changed a descriptor, an update with
\* the keyword 'name' was asked for a registered service
C22_Witness ==
    /\ lastOp.op = "update"
    /\ lastOp.key = "name"
    /\ lastOp.name \in Services
    /\ \E i \in DOMAIN heap : heap[i].path = "moved"

\* C23: descriptors pass by value: after update_service_config, what
\* DockerManager.services shows has changed only if set_services was called.
C23_NoSharedDescriptors ==
    (lastOp.op = "update" /\ ~lastOp.raised /\ ~lastOp.ret) =>
        Snapshot(Memory).seen = lastOp.before.seen

\* C26: an update that returns False leaves the configuration in memory as
\* it was: ConfigManager.services and ConfigManager.config hold the same
\* field values as before the call.
C26_FailedUpdateChangesNothing ==
    (lastOp.op = "update" /\ ~lastOp.raised /\ ~lastOp.ret) =>
        /\ Snapshot(Memory).registered = lastOp.before.registered
        /\ Snapshot(Memory).descriptors = lastOp.before.descriptors

\* the entries appended since the last clear, oldest first
SinceClear == [k \in 1..(added - cleared) |-> cleared + k]

\* C27: whenever the lock of a log panel is free the buffer holds at most
\* max_lines entries, and they are the most recently added ones since the
\* last clear, in the order of insertion: nothing is lost but the oldest.
C27_PanelBounded ==
    lock = 0 =>
        /\ Len(log_lines) <= max_lines
        /\ log_lines = SubSeq(SinceClear,
                              IF Len(SinceClear) > max_lines
                              THEN Len(SinceClear) - max_lines + 1 ELSE 1,
                              Len(SinceClear))

\* C28: no menu ever holds two items of one key, whatever the user selects:
\* the menus built on demand list each entry once each time they are shown.
C28_NoDuplicateKeys ==
    \A m \in MenuIds :
        \A i, j \in DOMAIN menus[m].items :
            menus[m].items[i].key = menus[m].items[j].key => i = j

\* C29: the display_menu invocations active at one time are never more than
\* the menu tree is deep; going back does not start a new one.
C29_NestingBounded == Len(frames) <= TreeDepth

\* C30: once Exit was chosen in the main menu, running is False, no action
\* is dispatched and no loop is entered any more: each step ends the
\* innermost display_menu, until none is left.
C30_ExitEndsEveryLoop ==
    [][/\ last_choice' = "exit" => ~running'
       /\ ~running => (last_choice' = last_choice /\ Len(frames') < Len(frames))]_vars

\* C30 witness: Exit was chosen in a main menu displayed by going back from
\* the service management menu; that invocation has ended, the one of the
\* service management menu that waited in its branch of choice 0 is past
\* its loop, and the first main menu still waits inside its action
C30_Witness ==
    /\ ~running
    /\ last_choice = "exit"
    /\ Len(frames) = 2
    /\ frames[1] = Frame(MainMenu, "in_action", FALSE)
    /\ frames[2] = Frame(ServiceManagement, "done", FALSE)
    /\ menu_stack = <<MainMenu>>
    /\ current_menu = MainMenu
====
